---- MODULE Spec2Model ----
(***************************************************************************)
(* The four routers of the AFM Chegutu API (directory, equipment, events,  *)
(* payments) as a state machine over the backing store.                    *)
(*                                                                         *)
(* The state is the content of the five tables the handlers read and       *)
(* write, the identifiers and receipt numbers issued so far, and the       *)
(* request being answered with its response.  A handler is an operator     *)
(* from the tables it reads and its request to the tables it leaves and    *)
(* its response; one action is one whole handler applied to the store.     *)
(* Requests are served one at a time: a handler runs when the response of  *)
(* the one before it has been sent.  The parameter `fail` of a handler is  *)
(* the index of the backend call that raises inside it (0: none does).     *)
(* A second specification lets the handlers that make several backend      *)
(* calls interleave: `running` holds the requests in flight, each at the   *)
(* backend call it makes next, and one step is one backend call.           *)
(* `images` is the content of the storage bucket upload_image writes to.   *)
(*                                                                         *)
(* Text values are sequences of one-character strings, so that the         *)
(* case-insensitive partial match of the search filters is computed.       *)
(* Python's None is the value None below, "" is the empty sequence.        *)
(***************************************************************************)
EXTENDS Integers, Sequences, FiniteSets, Bags, TLC

VARIABLES members, equipment, events, event_rsvps, payments,
          next_id, receipt_seq, resp, running, images

vars == <<members, equipment, events, event_rsvps, payments,
          next_id, receipt_seq, resp, running, images>>

(***************************************************************************)
(* Bounds of the model.                                                    *)
(***************************************************************************)
\* rows ever created per table (identifiers are never reused)
MaxRows == 2
\* RSVPs ever created
MaxRsvps == 1
\* reads of one event that count a view
MaxViews == 1
\* receipt numbers the sequence of the store issues
MaxReceipts == 2
\* requests in flight at once, when handlers interleave
MaxRunning == 2
\* reads of one event that count a view, when handlers interleave
MaxReads == 2
\* images ever uploaded
MaxUploads == 2

(***************************************************************************)
(* Values.                                                                 *)
(***************************************************************************)
None == <<"None">>
Empty == <<>>
Ab == <<"A", "b">>
Seven == <<"7">>
Male == <<"m", "a", "l", "e">>
Female == <<"f", "e", "m", "a", "l", "e">>
\* a datetime.date, as the digits of its year, month and day; date.today()
\* is this date
Nov3 == <<"2", "0", "2", "6", "1", "1", "0", "3">>
\* date.isoformat(): YYYY-MM-DD
isoformat(d) == SubSeq(d, 1, 4) \o <<"-">> \o SubSeq(d, 5, 6) \o <<"-">> \o SubSeq(d, 7, 8)
\* the JSON booleans
True == <<"t", "r", "u", "e">>
False == <<"f", "a", "l", "s", "e">>

Digit == <<"0", "1", "2", "3", "4", "5", "6", "7", "8", "9">>

\* datetime.now().isoformat() at the n-th instant: a text, greater for a later
\* instant
Instant(n) == <<Digit[n + 1]>>

\* identifiers a request may name: every issued one and one never issued
Ids == 1 .. (MaxRows + 1)
\* the identifier "" that str(data.get("id", "")) yields for a row without id
NoId == 0

Tables == {"members", "equipment", "events", "event_rsvps", "payments"}

(***************************************************************************)
(* Text: lower-casing and the ilike partial match of PostgREST.            *)
(***************************************************************************)
LowerText(t) ==
    [i \in 1 .. Len(t) |-> IF t[i] = "A" THEN "a" ELSE IF t[i] = "B" THEN "b" ELSE t[i]]

\* value ILIKE '%pattern%': NULL matches nothing
ILike(value, pattern) ==
    /\ value # None
    /\ \E i \in 1 .. (Len(value) - Len(pattern) + 1) :
          LowerText(SubSeq(value, i, i + Len(pattern) - 1)) = LowerText(pattern)

\* Python truthiness of an Optional[str] query parameter
Truthy(v) == v # None /\ v # Empty

(***************************************************************************)
(* The backing store: a table is a function from the identifiers of its    *)
(* rows to the rows; a row is a function from column names to values.      *)
(***************************************************************************)
\* .select("*").eq("id", id).execute().data
SelectById(table, id) == IF id \in DOMAIN table THEN <<table[id]>> ELSE <<>>

\* the row the store keeps for an insert of `data`: absent columns take the
\* column default, the identifier is the one sent or else one the store issues
NewRow(defaults, data, id) ==
    [k \in {"id"} \cup DOMAIN defaults |->
        IF k = "id" THEN (IF "id" \in DOMAIN data THEN data["id"] ELSE id)
        ELSE IF k \in DOMAIN data THEN data[k]
        ELSE defaults[k]]

\* .insert(row).execute()
InsertRow(table, row) ==
    [i \in (DOMAIN table) \cup {row["id"]} |-> IF i = row["id"] THEN row ELSE table[i]]

\* .update(data).eq("id", id).execute(): only the columns of `data` change
UpdateRow(table, id, data) ==
    [i \in DOMAIN table |->
        IF i = id
        THEN [k \in DOMAIN table[i] |-> IF k \in DOMAIN data THEN data[k] ELSE table[i][k]]
        ELSE table[i]]

\* .delete().eq("id", id).execute()
DeleteRow(table, id) == [i \in (DOMAIN table) \ {id} |-> table[i]]

EmptyTable == [i \in {} |-> None]

\* the payloads over `fields`: a dict holding any subset of the optional
\* fields and all the required ones, each with a value of its set
Payloads(required, optional, values) ==
    UNION { { d \in [required \cup S -> UNION { values[k] : k \in required \cup S }] :
                \A k \in DOMAIN d : d[k] \in values[k] } : S \in SUBSET optional }

(***************************************************************************)
(* Ordering of text columns (.order(column)): lexicographic over the       *)
(* collation below, NULL after every value.                                *)
(***************************************************************************)
RECURSIVE TextLess(_, _)
TextLess(a, b) ==
    LET Collation == <<"-", "0", "1", "2", "3", "4", "5", "6", "7", "8", "9",
                       "a", "A", "b", "B">>
        CharRank(c) == CHOOSE i \in 1 .. Len(Collation) : Collation[i] = c
    IN
    IF a = None \/ b = None THEN a # None /\ b = None
    ELSE IF Len(b) = 0 THEN FALSE
    ELSE IF Len(a) = 0 THEN TRUE
    ELSE IF Head(a) = Head(b) THEN TextLess(Tail(a), Tail(b))
    ELSE CharRank(Head(a)) < CharRank(Head(b))

\* the identifiers of `ids` in the order `before` gives: a strict total
\* order, as the set of the pairs <<i, j>> with i before j
RECURSIVE Ordered(_, _)
Ordered(ids, before) ==
    IF ids = {} THEN <<>>
    ELSE LET first == CHOOSE i \in ids : \A j \in ids \ {i} : <<i, j>> \in before
         IN  <<first>> \o Ordered(ids \ {first}, before)

\* .range(from, to) of an ordered result: the rows at the positions from .. to,
\* counted from 0, both included
Range(rows, from, to) ==
    SubSeq(rows, from + 1, IF to + 1 < Len(rows) THEN to + 1 ELSE Len(rows))

\* the subsets of k elements of a set of numbers
RECURSIVE KSubsets(_, _)
KSubsets(S, k) ==
    IF k = 0 THEN {{}}
    ELSE UNION { { T \cup {x} : T \in KSubsets({ y \in S : y > x }, k - 1) } : x \in S }

\* .limit(n) of an unordered select: the store returns n of the rows, any n
\* of them; the results it can give, each as the set of the identifiers
Limit(table, n) ==
    IF Cardinality(DOMAIN table) <= n THEN {DOMAIN table}
    ELSE { (DOMAIN table) \ D : D \in KSubsets(DOMAIN table, Cardinality(DOMAIN table) - n) }


\* the tables no handler of a router touches
OtherTablesUnchanged(touched) ==
    /\ "members" \in touched \/ members' = members
    /\ "equipment" \in touched \/ equipment' = equipment
    /\ "events" \in touched \/ events' = events
    /\ "event_rsvps" \in touched \/ event_rsvps' = event_rsvps
    /\ "payments" \in touched \/ payments' = payments
    /\ "receipt_seq" \in touched \/ receipt_seq' = receipt_seq
    /\ "running" \in touched \/ running' = running
    /\ "images" \in touched \/ images' = images

\* the identifier issued next in table t, and its being issued
NextId(t) == next_id[t] + 1
IssueId(t, status) == next_id' = IF status = 201 THEN [next_id EXCEPT ![t] = @ + 1] ELSE next_id

\* the requests explored: every input with all backend calls answering, and
\* the input `sample` with each of the handler's `calls` backend calls raising
WithFailures(inputs, sample, calls) ==
    { [input |-> x, fail |-> 0] : x \in inputs } \cup
    { [input |-> sample, fail |-> f] : f \in 1 .. calls }

\* no request is being answered
Idle == [op |-> "idle", arg |-> None, status |-> 0, body |-> None]

\* a handler of a router serves a request when none is being answered; a
\* router is explored while no other router has issued an identifier or a
\* receipt number, and while no image is stored unless it is the upload
Serving(tables) ==
    /\ resp.op = "idle"
    /\ \A t \in Tables \ tables : next_id[t] = 0
    /\ "payments" \in tables \/ receipt_seq = 0
    /\ "images" \in tables \/ images = EmptyTable

\* handler `op` answers the request `arg` with the status and body of `out`
Reply(op, arg, out) ==
    resp' = [op |-> op, arg |-> arg, status |-> out.status, body |-> out.body]

\* the response is sent, the next request can be served
Deliver ==
    /\ resp.op # "idle"
    /\ resp' = Idle
    /\ UNCHANGED <<members, equipment, events, event_rsvps, payments, next_id, receipt_seq,
                   running, images>>

(***************************************************************************)
(* directory.py.  Each handler gives the table it leaves, the status and   *)
(* the body of its response.                                               *)
(***************************************************************************)
\* the columns of members besides id: one the insert does not name is NULL
MemberDefaults == [full_name |-> None, email |-> None, gender |-> None]

\* MemberCreate: full_name is required, a str
MemberCreate ==
    Payloads({"full_name"}, {"email", "gender"},
             [full_name |-> {Empty, Ab}, email |-> {None, Empty, Seven},
              gender |-> {Female}])

\* MemberUpdate: every field is optional; model_dump(exclude_unset=True)
\* holds the fields the request carries
MemberUpdate ==
    Payloads({}, {"full_name", "email", "gender"},
             [full_name |-> {None, Ab}, email |-> {None, Empty, Seven},
              gender |-> {Female}])

format_member(data) ==
    [id |-> data["id"],
     \* str(None)
     full_name |-> IF data["full_name"] = None THEN <<"N", "o", "n", "e">>
                   ELSE data["full_name"],
     email |-> data["email"],
     gender |-> data["gender"]]

prepare_data_for_supabase(data) ==
    [k \in DOMAIN data |-> IF data[k] = None \/ data[k] = Empty THEN None ELSE data[k]]

\* the filters get_members and get_members_count chain onto the query
MemberMatches(row, search, gender) ==
    /\ Truthy(search) => ILike(row["full_name"], search) \/ ILike(row["email"], search)
    /\ Truthy(gender) => row["gender"] = gender

\* .order("full_name"); rows of equal name come in the order of their ids
MembersBefore(tbl, ids) ==
    { p \in ids \X ids :
        \/ TextLess(tbl[p[1]]["full_name"], tbl[p[2]]["full_name"])
        \/ tbl[p[1]]["full_name"] = tbl[p[2]]["full_name"] /\ p[1] < p[2] }

\* get_members asking for .range(offset, offset + limit)
get_members_one_more(tbl, search, gender, limit, offset, fail) ==
    LET ids == { i \in DOMAIN tbl : MemberMatches(tbl[i], search, gender) }
        rows == Range(Ordered(ids, MembersBefore(tbl, ids)), offset, offset + limit)
    IN  IF fail = 1 THEN [status |-> 500, body |-> None]
        ELSE [status |-> 200, body |-> [n \in 1 .. Len(rows) |-> format_member(tbl[rows[n]])]]

get_members(tbl, search, gender, limit, offset, fail) ==
    LET ids == { i \in DOMAIN tbl : MemberMatches(tbl[i], search, gender) }
        rows == Range(Ordered(ids, MembersBefore(tbl, ids)), offset, offset + limit - 1)
    IN  IF fail = 1 THEN [status |-> 500, body |-> None]
        ELSE [status |-> 200, body |-> [n \in 1 .. Len(rows) |-> format_member(tbl[rows[n]])]]

get_members_count(tbl, search, gender, fail) ==
    IF fail = 1 THEN [status |-> 500, body |-> None]
    ELSE [status |-> 200,
          body |-> Cardinality({ i \in DOMAIN tbl : MemberMatches(tbl[i], search, gender) })]

get_member(tbl, member_id, fail) ==
    LET result == SelectById(tbl, member_id)
    IN  IF fail = 1 THEN [status |-> 500, body |-> None]
        ELSE IF Len(result) = 0 THEN [status |-> 404, body |-> None]
        ELSE [status |-> 200, body |-> format_member(result[1])]

\* create_member answering with the payload it was sent, not the stored row
create_member_echoing(tbl, member, new_id, fail) ==
    LET supabase_data == prepare_data_for_supabase(member)
        row == NewRow(MemberDefaults, supabase_data, new_id)
        sent == NewRow(MemberDefaults, member, new_id)
    IN  IF fail = 1 THEN [members |-> tbl, status |-> 500, body |-> None]
        ELSE [members |-> InsertRow(tbl, row), status |-> 201, body |-> format_member(sent)]

\* new_id: the identifier the store gives the row
create_member(tbl, member, new_id, fail) ==
    LET supabase_data == prepare_data_for_supabase(member)
        row == NewRow(MemberDefaults, supabase_data, new_id)
    IN  IF fail = 1 THEN [members |-> tbl, status |-> 500, body |-> None]
        ELSE [members |-> InsertRow(tbl, row), status |-> 201, body |-> format_member(row)]

\* update_member without `if not supabase_data`: it always issues the update
update_member_always_writing(tbl, member_id, member, fail) ==
    LET existing == SelectById(tbl, member_id)
        supabase_data == prepare_data_for_supabase(member)
        updated == UpdateRow(tbl, member_id, supabase_data)
    IN  IF fail = 1 THEN [members |-> tbl, status |-> 500, body |-> None]
        ELSE IF Len(existing) = 0 THEN [members |-> tbl, status |-> 404, body |-> None]
        ELSE IF fail = 2 THEN [members |-> tbl, status |-> 500, body |-> None]
        ELSE [members |-> updated, status |-> 200, body |-> format_member(updated[member_id])]

update_member(tbl, member_id, member, fail) ==
    LET existing == SelectById(tbl, member_id)
        supabase_data == prepare_data_for_supabase(member)
        updated == UpdateRow(tbl, member_id, supabase_data)
    IN  IF fail = 1 THEN [members |-> tbl, status |-> 500, body |-> None]
        ELSE IF Len(existing) = 0 THEN [members |-> tbl, status |-> 404, body |-> None]
        ELSE IF DOMAIN supabase_data = {}
        THEN [members |-> tbl, status |-> 200, body |-> format_member(existing[1])]
        ELSE IF fail = 2 THEN [members |-> tbl, status |-> 500, body |-> None]
        ELSE [members |-> updated, status |-> 200, body |-> format_member(updated[member_id])]

delete_member(tbl, member_id, fail) ==
    LET result == SelectById(tbl, member_id)
    IN  IF fail = 1 THEN [members |-> tbl, status |-> 500, body |-> None]
        ELSE IF Len(result) = 0 THEN [members |-> tbl, status |-> 404, body |-> None]
        ELSE [members |-> DeleteRow(tbl, member_id), status |-> 204, body |-> None]

\* .limit(1000) of get_member_stats and get_equipment_stats
StatsLimit == 1000

MemberStatsDefault == [total |-> 0, male |-> 0, female |-> 0, other |-> 0]

\* get_member_stats counting as female every member that is not male
get_member_stats_not_male(tbl, fetched, fail) ==
    IF fail = 1 THEN [status |-> 200, body |-> MemberStatsDefault]
    ELSE [status |-> 200,
          body |-> [total |-> Cardinality(fetched),
                    male |-> Cardinality({ i \in fetched : tbl[i]["gender"] = Male }),
                    female |-> Cardinality({ i \in fetched : tbl[i]["gender"] # Male }),
                    other |-> Cardinality({ i \in fetched :
                                 tbl[i]["gender"] = <<"o", "t", "h", "e", "r">> })]]

\* fetched: the rows the select with .limit(1000) returned
get_member_stats(tbl, fetched, fail) ==
    IF fail = 1 THEN [status |-> 200, body |-> MemberStatsDefault]
    ELSE [status |-> 200,
          body |-> [total |-> Cardinality(fetched),
                    male |-> Cardinality({ i \in fetched : tbl[i]["gender"] = Male }),
                    female |-> Cardinality({ i \in fetched : tbl[i]["gender"] = Female }),
                    other |-> Cardinality({ i \in fetched :
                                 tbl[i]["gender"] = <<"o", "t", "h", "e", "r">> })]]

\* the inputs of the list and count requests
Searches == {None, <<"a">>, Seven}
Limits == {1, 2}
Offsets == {0, 1}

GetMembers ==
    /\ Serving({"members"})
    /\ \E r \in WithFailures(Searches \X {None, Female} \X Limits \X Offsets, <<None, None, 1, 0>>, 1) :
        LET s == r.input[1]  g == r.input[2]  l == r.input[3]  o == r.input[4]  f == r.fail IN
        /\ Reply("get_members",
                 [search |-> s, gender |-> g, limit |-> l, offset |-> o, fail |-> f],
                 get_members(members, s, g, l, o, f))
        /\ UNCHANGED next_id /\ OtherTablesUnchanged({})

GetMembersCount ==
    /\ Serving({"members"})
    /\ \E r \in WithFailures(Searches \X {None, Female}, <<None, None>>, 1) :
        LET s == r.input[1]  g == r.input[2]  f == r.fail IN
        /\ Reply("get_members_count", [search |-> s, gender |-> g, fail |-> f],
                 get_members_count(members, s, g, f))
        /\ UNCHANGED next_id /\ OtherTablesUnchanged({})

GetMember ==
    /\ Serving({"members"})
    /\ \E i \in Ids, f \in 0 .. 1 :
        /\ Reply("get_member", [id |-> i, fail |-> f], get_member(members, i, f))
        /\ UNCHANGED next_id /\ OtherTablesUnchanged({})

CreateMember ==
    /\ Serving({"members"})
    /\ \E r \in WithFailures(MemberCreate, [full_name |-> Ab], 1) :
        LET d == r.input  f == r.fail IN
        LET out == create_member(members, d, NextId("members"), f)
        IN  /\ out.status = 201 => next_id["members"] < MaxRows
            /\ members' = out.members
            /\ IssueId("members", out.status)
            /\ Reply("create_member", [data |-> d, fail |-> f], out)
            /\ OtherTablesUnchanged({"members"})

UpdateMember ==
    /\ Serving({"members"})
    /\ \E i \in Ids, r \in WithFailures(MemberUpdate, [email |-> Seven], 2) :
        LET d == r.input  f == r.fail IN
        LET out == update_member(members, i, d, f)
        IN  /\ members' = out.members
            /\ Reply("update_member", [id |-> i, data |-> d, fail |-> f], out)
            /\ UNCHANGED next_id /\ OtherTablesUnchanged({"members"})

DeleteMember ==
    /\ Serving({"members"})
    /\ \E i \in Ids, f \in 0 .. 1 :
        LET out == delete_member(members, i, f)
        IN  /\ members' = out.members
            /\ Reply("delete_member", [id |-> i, fail |-> f], out)
            /\ UNCHANGED next_id /\ OtherTablesUnchanged({"members"})

GetMemberStats ==
    /\ Serving({"members"})
    /\ \E f \in 0 .. 1, fetched \in Limit(members, StatsLimit) :
        /\ Reply("get_member_stats", [fail |-> f], get_member_stats(members, fetched, f))
        /\ UNCHANGED next_id /\ OtherTablesUnchanged({})

(***************************************************************************)
(* equipment.py                                                            *)
(***************************************************************************)
Available == <<"a", "v", "a", "i", "l", "a", "b", "l", "e">>
InUse == <<"i", "n", "_", "u", "s", "e">>

EquipmentDefaults == [name |-> None, serial_number |-> None, status |-> None]

EquipmentCreate ==
    Payloads({"name"}, {"serial_number", "status"},
             [name |-> {Empty, Ab}, serial_number |-> {None, Empty, Seven},
              status |-> {InUse}])

EquipmentUpdate ==
    Payloads({}, {"name", "serial_number", "status"},
             [name |-> {None, Ab}, serial_number |-> {None, Empty, Seven},
              status |-> {InUse}])

format_equipment(data) ==
    [id |-> data["id"],
     \* str(None)
     name |-> IF data["name"] = None THEN <<"N", "o", "n", "e">> ELSE data["name"],
     serial_number |-> data["serial_number"],
     status |-> data["status"]]

\* prepare_data_for_supabase of equipment.py
prepare_equipment_data_for_supabase(data) ==
    [k \in DOMAIN data |-> IF data[k] = None \/ data[k] = Empty THEN None ELSE data[k]]

EquipmentMatches(row, search, status) ==
    /\ Truthy(search) => ILike(row["name"], search) \/ ILike(row["serial_number"], search)
    /\ Truthy(status) => row["status"] = status

\* .order("name"); rows of equal name come in the order of their ids
EquipmentBefore(tbl, ids) ==
    { p \in ids \X ids :
        \/ TextLess(tbl[p[1]]["name"], tbl[p[2]]["name"])
        \/ tbl[p[1]]["name"] = tbl[p[2]]["name"] /\ p[1] < p[2] }

get_equipment(tbl, search, status, limit, offset, fail) ==
    LET ids == { i \in DOMAIN tbl : EquipmentMatches(tbl[i], search, status) }
        rows == Range(Ordered(ids, EquipmentBefore(tbl, ids)), offset, offset + limit - 1)
    IN  IF fail = 1 THEN [status |-> 500, body |-> None]
        ELSE [status |-> 200,
              body |-> [n \in 1 .. Len(rows) |-> format_equipment(tbl[rows[n]])]]

get_equipment_count(tbl, search, status, fail) ==
    IF fail = 1 THEN [status |-> 500, body |-> None]
    ELSE [status |-> 200,
          body |-> Cardinality({ i \in DOMAIN tbl : EquipmentMatches(tbl[i], search, status) })]

get_equipment_by_id(tbl, equipment_id, fail) ==
    LET result == SelectById(tbl, equipment_id)
    IN  IF fail = 1 THEN [status |-> 500, body |-> None]
        ELSE IF Len(result) = 0 THEN [status |-> 404, body |-> None]
        ELSE [status |-> 200, body |-> format_equipment(result[1])]

\* new_id: str(uuid.uuid4())
create_equipment(tbl, item, new_id, fail) ==
    LET supabase_data == prepare_equipment_data_for_supabase(item)
        row == NewRow(EquipmentDefaults, supabase_data, new_id)
    IN  IF fail = 1 THEN [equipment |-> tbl, status |-> 500, body |-> None]
        ELSE [equipment |-> InsertRow(tbl, row), status |-> 201, body |-> format_equipment(row)]

update_equipment(tbl, equipment_id, item, fail) ==
    LET existing == SelectById(tbl, equipment_id)
        supabase_data == prepare_equipment_data_for_supabase(item)
        updated == UpdateRow(tbl, equipment_id, supabase_data)
    IN  IF fail = 1 THEN [equipment |-> tbl, status |-> 500, body |-> None]
        ELSE IF Len(existing) = 0 THEN [equipment |-> tbl, status |-> 404, body |-> None]
        ELSE IF DOMAIN supabase_data = {}
        THEN [equipment |-> tbl, status |-> 200, body |-> format_equipment(existing[1])]
        ELSE IF fail = 2 THEN [equipment |-> tbl, status |-> 500, body |-> None]
        ELSE [equipment |-> updated, status |-> 200,
              body |-> format_equipment(updated[equipment_id])]

delete_equipment(tbl, equipment_id, fail) ==
    LET result == SelectById(tbl, equipment_id)
    IN  IF fail = 1 THEN [equipment |-> tbl, status |-> 500, body |-> None]
        ELSE IF Len(result) = 0 THEN [equipment |-> tbl, status |-> 404, body |-> None]
        ELSE [equipment |-> DeleteRow(tbl, equipment_id), status |-> 204, body |-> None]

EquipmentStatsDefault == [total |-> 0, available |-> 0, in_use |-> 0]

\* fetched: the rows the select with .limit(1000) returned
get_equipment_stats(tbl, fetched, fail) ==
    IF fail = 1 THEN [status |-> 200, body |-> EquipmentStatsDefault]
    ELSE [status |-> 200,
          body |-> [total |-> Cardinality(fetched),
                    available |-> Cardinality({ i \in fetched : tbl[i]["status"] = Available }),
                    in_use |-> Cardinality({ i \in fetched : tbl[i]["status"] = InUse })]]

GetEquipment ==
    /\ Serving({"equipment"})
    /\ \E r \in WithFailures(Searches \X {None, InUse} \X Limits \X Offsets, <<None, None, 1, 0>>, 1) :
        LET s == r.input[1]  g == r.input[2]  l == r.input[3]  o == r.input[4]  f == r.fail IN
        /\ Reply("get_equipment",
                 [search |-> s, status_filter |-> g, limit |-> l, offset |-> o, fail |-> f],
                 get_equipment(equipment, s, g, l, o, f))
        /\ UNCHANGED next_id /\ OtherTablesUnchanged({})

GetEquipmentCount ==
    /\ Serving({"equipment"})
    /\ \E r \in WithFailures(Searches \X {None, InUse}, <<None, None>>, 1) :
        LET s == r.input[1]  g == r.input[2]  f == r.fail IN
        /\ Reply("get_equipment_count", [search |-> s, status_filter |-> g, fail |-> f],
                 get_equipment_count(equipment, s, g, f))
        /\ UNCHANGED next_id /\ OtherTablesUnchanged({})

GetEquipmentById ==
    /\ Serving({"equipment"})
    /\ \E i \in Ids, f \in 0 .. 1 :
        /\ Reply("get_equipment_by_id", [id |-> i, fail |-> f], get_equipment_by_id(equipment, i, f))
        /\ UNCHANGED next_id /\ OtherTablesUnchanged({})

CreateEquipment ==
    /\ Serving({"equipment"})
    /\ \E r \in WithFailures(EquipmentCreate, [name |-> Ab], 1) :
        LET d == r.input  f == r.fail IN
        LET out == create_equipment(equipment, d, NextId("equipment"), f)
        IN  /\ out.status = 201 => next_id["equipment"] < MaxRows
            /\ equipment' = out.equipment
            /\ IssueId("equipment", out.status)
            /\ Reply("create_equipment", [data |-> d, fail |-> f], out)
            /\ OtherTablesUnchanged({"equipment"})

UpdateEquipment ==
    /\ Serving({"equipment"})
    /\ \E i \in Ids, r \in WithFailures(EquipmentUpdate, [serial_number |-> Seven], 2) :
        LET d == r.input  f == r.fail IN
        LET out == update_equipment(equipment, i, d, f)
        IN  /\ equipment' = out.equipment
            /\ Reply("update_equipment", [id |-> i, data |-> d, fail |-> f], out)
            /\ UNCHANGED next_id /\ OtherTablesUnchanged({"equipment"})

DeleteEquipment ==
    /\ Serving({"equipment"})
    /\ \E i \in Ids, f \in 0 .. 1 :
        LET out == delete_equipment(equipment, i, f)
        IN  /\ equipment' = out.equipment
            /\ Reply("delete_equipment", [id |-> i, fail |-> f], out)
            /\ UNCHANGED next_id /\ OtherTablesUnchanged({"equipment"})

GetEquipmentStats ==
    /\ Serving({"equipment"})
    /\ \E f \in 0 .. 1, fetched \in Limit(equipment, StatsLimit) :
        /\ Reply("get_equipment_stats", [fail |-> f],
                 get_equipment_stats(equipment, fetched, f))
        /\ UNCHANGED next_id /\ OtherTablesUnchanged({})

(***************************************************************************)
(* events.py                                                               *)
(***************************************************************************)
\* type: str = "event"
EventType == <<"e", "v", "e", "n", "t">>

\* a column the insert does not name is NULL; views starts at 0, an event is
\* of type "event", published and not featured unless the insert says
\* otherwise
EventDefaults ==
    [title |-> None, content |-> None, type |-> EventType, category |-> None,
     event_start_date |-> None, views |-> 0, is_published |-> True,
     is_featured |-> False, published_at |-> None]

EventCreate ==
    Payloads({"title"}, {"content"}, [title |-> {Ab}, content |-> {None, Empty, Ab}])

\* EventUpdate: every field is optional
EventUpdate ==
    Payloads({}, {"title", "content"},
             [title |-> {None, Ab}, content |-> {None, Empty, Ab}])

\* RSVPCreate; model_dump() holds every field, email None when not sent
RSVPCreate == [event_id : Ids, name : {Ab}, email : {None, Empty}]

\* None and "" become None, a date its ISO string
prepare_data(data) ==
    [k \in DOMAIN data |->
        IF data[k] = None \/ data[k] = Empty THEN None
        ELSE IF k = "event_start_date" THEN isoformat(data[k])
        ELSE data[k]]

\* {k: v for k, v in data.items() if v is not None}
RemoveNone(data) == [k \in { j \in DOMAIN data : data[j] # None } |-> data[k]]

\* .select("*", count="exact", head=True).eq("event_id", event_id).execute().count
RsvpCount(rs, event_id) ==
    Cardinality({ r \in DOMAIN rs : rs[r]["event_id"] = event_id })

\* .update({"views": supabase.raw("views + 1")}).eq("id", event_id).execute()
IncrementViews(ev, event_id) ==
    IF event_id \in DOMAIN ev
    THEN [ev EXCEPT ![event_id] = [@ EXCEPT !["views"] = @ + 1]]
    ELSE ev

\* item["rsvp_count"] = rsvp_result.count
WithRsvpCount(row, n) ==
    [k \in (DOMAIN row) \cup {"rsvp_count"} |-> IF k = "rsvp_count" THEN n ELSE row[k]]

\* response_model=EventResponse: a row answered without rsvp_count carries the
\* default of the field, rsvp_count: int = 0
EventResponse(row) ==
    [k \in (DOMAIN row) \cup {"rsvp_count"} |-> IF k \in DOMAIN row THEN row[k] ELSE 0]

get_event(ev, rs, event_id, fail) ==
    LET counted == IncrementViews(ev, event_id)
        result == SelectById(counted, event_id)
    IN  IF fail = 1 THEN [events |-> ev, status |-> 500, body |-> None]
        ELSE IF fail = 2 THEN [events |-> counted, status |-> 500, body |-> None]
        ELSE IF Len(result) = 0 THEN [events |-> counted, status |-> 404, body |-> None]
        ELSE IF fail = 3 THEN [events |-> counted, status |-> 500, body |-> None]
        ELSE [events |-> counted, status |-> 200,
              body |-> WithRsvpCount(result[1], RsvpCount(rs, event_id))]

\* the filters of get_events without .eq("is_published", True)
EventMatches_any_publication(row, search, type, category, featured, upcoming) ==
    /\ Truthy(search) => ILike(row["title"], search) \/ ILike(row["content"], search)
    /\ Truthy(type) => row["type"] = type
    /\ Truthy(category) => row["category"] = category
    /\ featured # None => row["is_featured"] = featured
    /\ upcoming = True
       => /\ row["event_start_date"] # None
          /\ ~TextLess(row["event_start_date"], isoformat(Nov3))
          /\ row["type"] = EventType

\* the filters of get_events: the search, the type, the category, the
\* featured flag, upcoming (an event of type "event" that starts today or
\* later), and only published events
EventMatches(row, search, type, category, featured, upcoming) ==
    /\ Truthy(search) => ILike(row["title"], search) \/ ILike(row["content"], search)
    /\ Truthy(type) => row["type"] = type
    /\ Truthy(category) => row["category"] = category
    /\ featured # None => row["is_featured"] = featured
    /\ upcoming = True
       => /\ row["event_start_date"] # None
          /\ ~TextLess(row["event_start_date"], isoformat(Nov3))
          /\ row["type"] = EventType
    /\ row["is_published"] = True

\* .order("published_at", desc=True): NULL first, later instants before
\* earlier ones; rows of equal instant come in the order of their ids
EventsBefore(tbl, ids) ==
    { p \in ids \X ids :
        \/ TextLess(tbl[p[2]]["published_at"], tbl[p[1]]["published_at"])
        \/ tbl[p[1]]["published_at"] = tbl[p[2]]["published_at"] /\ p[1] < p[2] }

\* fail = 1: the list query raises; fail = 2: an RSVP count raises
get_events(ev, rs, search, type, category, featured, upcoming, limit, offset, fail) ==
    LET ids == { i \in DOMAIN ev :
                   EventMatches(ev[i], search, type, category, featured, upcoming) }
        rows == Range(Ordered(ids, EventsBefore(ev, ids)), offset, offset + limit - 1)
    IN  IF fail = 1 THEN [status |-> 500, body |-> None]
        ELSE IF Len(rows) = 0 THEN [status |-> 200, body |-> <<>>]
        ELSE IF fail = 2 THEN [status |-> 500, body |-> None]
        ELSE [status |-> 200,
              body |-> [n \in 1 .. Len(rows) |->
                           WithRsvpCount(ev[rows[n]], RsvpCount(rs, rows[n]))]]

\* new_id: str(uuid.uuid4()); now: datetime.now().isoformat(), later for an
\* event created later
create_event(ev, event, new_id, now, fail) ==
    LET data == RemoveNone(prepare_data(
                    [k \in (DOMAIN event) \cup {"published_at"} |->
                        IF k = "published_at" THEN now ELSE event[k]]))
        row == NewRow(EventDefaults, data, new_id)
    IN  IF fail = 1 THEN [events |-> ev, status |-> 500, body |-> None]
        ELSE [events |-> InsertRow(ev, row), status |-> 201, body |-> EventResponse(row)]

\* update_event without the removal of the None values
update_event_keeping_none(ev, event_id, event, fail) ==
    LET existing == SelectById(ev, event_id)
        update_data == prepare_data(event)
        updated == UpdateRow(ev, event_id, update_data)
    IN  IF fail = 1 THEN [events |-> ev, status |-> 500, body |-> None]
        ELSE IF Len(existing) = 0 THEN [events |-> ev, status |-> 404, body |-> None]
        ELSE IF DOMAIN update_data = {}
        THEN [events |-> ev, status |-> 200, body |-> EventResponse(existing[1])]
        ELSE IF fail = 2 THEN [events |-> ev, status |-> 500, body |-> None]
        ELSE [events |-> updated, status |-> 200,
              body |-> EventResponse(updated[event_id])]

update_event(ev, event_id, event, fail) ==
    LET existing == SelectById(ev, event_id)
        update_data == RemoveNone(prepare_data(event))
        updated == UpdateRow(ev, event_id, update_data)
    IN  IF fail = 1 THEN [events |-> ev, status |-> 500, body |-> None]
        ELSE IF Len(existing) = 0 THEN [events |-> ev, status |-> 404, body |-> None]
        ELSE IF DOMAIN update_data = {}
        THEN [events |-> ev, status |-> 200, body |-> EventResponse(existing[1])]
        ELSE IF fail = 2 THEN [events |-> ev, status |-> 500, body |-> None]
        ELSE [events |-> updated, status |-> 200,
              body |-> EventResponse(updated[event_id])]

\* .delete().eq("event_id", event_id).execute() on event_rsvps
DeleteRsvpsOf(rs, event_id) ==
    [r \in { q \in DOMAIN rs : rs[q]["event_id"] # event_id } |-> rs[r]]

\* delete_event without its first call: the RSVPs of the event stay
delete_event_keeping_rsvps(ev, rs, event_id, fail) ==
    LET result == SelectById(ev, event_id)
    IN  IF fail \in {1, 2}
        THEN [events |-> ev, event_rsvps |-> rs, status |-> 500, body |-> None]
        ELSE IF Len(result) = 0
        THEN [events |-> ev, event_rsvps |-> rs, status |-> 404, body |-> None]
        ELSE [events |-> DeleteRow(ev, event_id), event_rsvps |-> rs,
              status |-> 204, body |-> None]

\* delete_event without `if not result.data`: a missing event is a success
delete_event_silently(ev, rs, event_id, fail) ==
    LET kept == DeleteRsvpsOf(rs, event_id)
    IN  IF fail = 1
        THEN [events |-> ev, event_rsvps |-> rs, status |-> 500, body |-> None]
        ELSE IF fail = 2
        THEN [events |-> ev, event_rsvps |-> kept, status |-> 500, body |-> None]
        ELSE [events |-> DeleteRow(ev, event_id), event_rsvps |-> kept,
              status |-> 204, body |-> None]

\* delete_event with its two deletes in the other order: the event first
delete_event_event_first(ev, rs, event_id, fail) ==
    LET kept == DeleteRsvpsOf(rs, event_id)
        result == SelectById(ev, event_id)
    IN  IF fail = 1
        THEN [events |-> ev, event_rsvps |-> rs, status |-> 500, body |-> None]
        ELSE IF fail = 2
        THEN [events |-> DeleteRow(ev, event_id), event_rsvps |-> rs,
              status |-> 500, body |-> None]
        ELSE IF Len(result) = 0
        THEN [events |-> ev, event_rsvps |-> kept, status |-> 404, body |-> None]
        ELSE [events |-> DeleteRow(ev, event_id), event_rsvps |-> kept,
              status |-> 204, body |-> None]

\* fail = 1: the delete of the RSVPs raises; fail = 2: the delete of the event
\* raises
delete_event(ev, rs, event_id, fail) ==
    LET kept == DeleteRsvpsOf(rs, event_id)
        result == SelectById(ev, event_id)
    IN  IF fail = 1
        THEN [events |-> ev, event_rsvps |-> rs, status |-> 500, body |-> None]
        ELSE IF fail = 2
        THEN [events |-> ev, event_rsvps |-> kept, status |-> 500, body |-> None]
        ELSE IF Len(result) = 0
        THEN [events |-> ev, event_rsvps |-> kept, status |-> 404, body |-> None]
        ELSE [events |-> DeleteRow(ev, event_id), event_rsvps |-> kept,
              status |-> 204, body |-> None]

get_event_rsvps(rs, event_id, fail) ==
    LET ids == { r \in DOMAIN rs : rs[r]["event_id"] = event_id }
        \* .order("created_at"): RSVPs come in the order they were created in
        rows == Ordered(ids, { p \in ids \X ids : p[1] < p[2] })
    IN  IF fail = 1 THEN [status |-> 500, body |-> None]
        ELSE [status |-> 200, body |-> [n \in 1 .. Len(rows) |-> rs[rows[n]]]]

\* create_rsvp without the check that the event exists
create_rsvp_unchecked(ev, rs, rsvp, new_id, fail) ==
    LET row == [id |-> new_id, event_id |-> rsvp.event_id, name |-> rsvp.name,
                email |-> rsvp.email]
    IN  IF fail \in {1, 2} THEN [event_rsvps |-> rs, status |-> 500, body |-> None]
        ELSE [event_rsvps |-> InsertRow(rs, row), status |-> 201, body |-> row]

\* new_id: str(uuid.uuid4())
create_rsvp(ev, rs, rsvp, new_id, fail) ==
    LET event == SelectById(ev, rsvp.event_id)
        row == [id |-> new_id, event_id |-> rsvp.event_id, name |-> rsvp.name,
                email |-> rsvp.email]
    IN  IF fail = 1 THEN [event_rsvps |-> rs, status |-> 500, body |-> None]
        ELSE IF Len(event) = 0 THEN [event_rsvps |-> rs, status |-> 404, body |-> None]
        ELSE IF fail = 2 THEN [event_rsvps |-> rs, status |-> 500, body |-> None]
        ELSE [event_rsvps |-> InsertRow(rs, row), status |-> 201, body |-> row]

delete_rsvp(rs, rsvp_id, fail) ==
    LET result == SelectById(rs, rsvp_id)
    IN  IF fail = 1 THEN [event_rsvps |-> rs, status |-> 500, body |-> None]
        ELSE IF Len(result) = 0 THEN [event_rsvps |-> rs, status |-> 404, body |-> None]
        ELSE [event_rsvps |-> DeleteRow(rs, rsvp_id), status |-> 204, body |-> None]

EventStatsDefault == [total_events |-> 0, total_rsvps |-> 0]

get_event_stats(ev, rs, fail) ==
    IF fail # 0 THEN [status |-> 200, body |-> EventStatsDefault]
    ELSE [status |-> 200,
          body |-> [total_events |-> Cardinality(DOMAIN ev),
                    total_rsvps |-> Cardinality(DOMAIN rs)]]

\* allowed_types of upload_image
AllowedTypes ==
    {"image/jpeg", "image/png", "image/gif", "image/webp", "image/heic", "image/heif"}

\* 10 * 1024 * 1024
MaxImageBytes == 10485760

Jpg == <<".", "j", "p", "g">>

\* os.path.splitext(p): <<root, ext>>; ext starts at the last dot of the last
\* path component, and is empty when only dots precede that dot in it
splitext(p) ==
    LET sepIndex == IF \E i \in 1 .. Len(p) : p[i] = "/"
                    THEN CHOOSE i \in 1 .. Len(p) :
                            p[i] = "/" /\ \A j \in (i + 1) .. Len(p) : p[j] # "/"
                    ELSE 0
        dotIndex == IF \E i \in 1 .. Len(p) : p[i] = "."
                    THEN CHOOSE i \in 1 .. Len(p) :
                            p[i] = "." /\ \A j \in (i + 1) .. Len(p) : p[j] # "."
                    ELSE 0
    IN  IF dotIndex > sepIndex /\ \E i \in (sepIndex + 1) .. (dotIndex - 1) : p[i] # "."
        THEN <<SubSeq(p, 1, dotIndex - 1), SubSeq(p, dotIndex, Len(p))>>
        ELSE <<p, Empty>>

\* supabase.storage.from_("images").get_public_url(file_name)
PublicUrl(file_name) == <<"/", "i", "m", "a", "g", "e", "s", "/">> \o file_name

\* the files upload_image is sent: every allowed content type and two others,
\* every size around the limit and every shape of file name
UploadFiles ==
    { [content_type |-> t, size |-> MaxImageBytes, filename |-> <<"a", ".", "b">>] :
        t \in AllowedTypes \cup {"image/bmp", "text/plain"} }
    \cup { [content_type |-> t, size |-> n, filename |-> f] :
              t \in {"image/png", "text/plain"},
              n \in {MaxImageBytes - 1, MaxImageBytes, MaxImageBytes + 1},
              f \in { <<"a", ".", "b">>, <<"a", ".", "B">>, <<"a">>, <<".", "b">>,
                      <<"a", ".", "b", ".", "7">>, <<"a", ".", "b", "/", "A">>,
                      <<"a", ".">> } }

\* upload_image without the check of the size
upload_image_any_size(bucket, file, token, fail) ==
    LET ext == LowerText(splitext(file.filename)[2])
        file_ext == IF Truthy(ext) THEN ext ELSE Jpg
        file_name == token \o file_ext
        stored == [n \in (DOMAIN bucket) \cup {file_name} |->
                      IF n = file_name
                      THEN [content_type |-> file.content_type, size |-> file.size]
                      ELSE bucket[n]]
    IN  IF file.content_type \notin AllowedTypes
        THEN [images |-> bucket, status |-> 400, body |-> None]
        ELSE IF fail = 1 THEN [images |-> bucket, status |-> 500, body |-> None]
        ELSE IF fail = 2 THEN [images |-> stored, status |-> 500, body |-> None]
        ELSE [images |-> stored, status |-> 200,
              body |-> [url |-> PublicUrl(file_name), filename |-> file_name]]

\* token: str(uuid.uuid4()); fail = 1: the upload raises, fail = 2:
\* get_public_url raises
upload_image(bucket, file, token, fail) ==
    LET ext == LowerText(splitext(file.filename)[2])
        file_ext == IF Truthy(ext) THEN ext ELSE Jpg
        file_name == token \o file_ext
        stored == [n \in (DOMAIN bucket) \cup {file_name} |->
                      IF n = file_name
                      THEN [content_type |-> file.content_type, size |-> file.size]
                      ELSE bucket[n]]
    IN  IF file.content_type \notin AllowedTypes
        THEN [images |-> bucket, status |-> 400, body |-> None]
        ELSE IF file.size > MaxImageBytes
        THEN [images |-> bucket, status |-> 400, body |-> None]
        ELSE IF fail = 1 THEN [images |-> bucket, status |-> 500, body |-> None]
        ELSE IF fail = 2 THEN [images |-> stored, status |-> 500, body |-> None]
        ELSE [images |-> stored, status |-> 200,
              body |-> [url |-> PublicUrl(file_name), filename |-> file_name]]

UploadImage ==
    /\ Serving({"images"})
    /\ \E r \in WithFailures(UploadFiles,
                              [content_type |-> "image/png", size |-> MaxImageBytes,
                               filename |-> <<"a", ".", "b">>], 2) :
        \* str(uuid.uuid4()): a text no earlier upload was given
        LET token == <<Digit[Cardinality(DOMAIN images) + 2]>>
            out == upload_image(images, r.input, token, r.fail)
        IN  /\ out.images # images => Cardinality(DOMAIN images) < MaxUploads
            /\ images' = out.images
            /\ Reply("upload_image", [file |-> r.input, fail |-> r.fail], out)
            /\ UNCHANGED next_id /\ OtherTablesUnchanged({"images"})

GetEvent ==
    /\ Serving({"events", "event_rsvps"})
    /\ \E i \in Ids, f \in 0 .. 3 :
        LET out == get_event(events, event_rsvps, i, f)
        IN  /\ i \in DOMAIN events => events[i]["views"] < MaxViews
            /\ events' = out.events
            /\ Reply("get_event", [id |-> i, fail |-> f], out)
            /\ UNCHANGED next_id /\ OtherTablesUnchanged({"events"})

\* get_events for the query parameters of `queries`
GetEvents(queries) ==
    /\ Serving({"events", "event_rsvps"})
    /\ \E r \in WithFailures(queries,
                              [search |-> None, type |-> None, category |-> None,
                               featured |-> None, upcoming |-> None,
                               limit |-> 1, offset |-> 0], 2) :
        LET p == r.input  f == r.fail IN
        /\ Reply("get_events",
                 [search |-> p.search, type |-> p.type, category |-> p.category,
                  featured |-> p.featured, upcoming |-> p.upcoming,
                  limit |-> p.limit, offset |-> p.offset, fail |-> f],
                 get_events(events, event_rsvps, p.search, p.type, p.category,
                            p.featured, p.upcoming, p.limit, p.offset, f))
        /\ UNCHANGED next_id /\ OtherTablesUnchanged({})

CreateEvent ==
    /\ Serving({"events", "event_rsvps"})
    /\ \E r \in WithFailures(EventCreate, [title |-> Ab], 1) :
        LET d == r.input  f == r.fail IN
        LET out == create_event(events, d, NextId("events"), Instant(NextId("events")), f)
        IN  /\ out.status = 201 => next_id["events"] < MaxRows
            /\ events' = out.events
            /\ IssueId("events", out.status)
            /\ Reply("create_event", [data |-> d, fail |-> f], out)
            /\ OtherTablesUnchanged({"events"})

\* create_event for a payload that sends is_published as false, alone or with
\* the type, the category, the featured flag and the start date (today, or
\* the day before) that the filters of get_events look at
CreateDraftEvent ==
    /\ Serving({"events", "event_rsvps"})
    /\ \E d \in { [k \in (DOMAIN e) \cup {"is_published"} |->
                    IF k = "is_published" THEN False ELSE e[k]] : e \in EventCreate }
              \cup { [title |-> Ab, is_published |-> False, type |-> Ab,
                      category |-> Ab, is_featured |-> True],
                     [title |-> Ab, is_published |-> False, is_featured |-> True,
                      event_start_date |-> Nov3],
                     [title |-> Ab, is_published |-> False, category |-> Ab,
                      event_start_date |-> <<"2", "0", "2", "6", "1", "1", "0", "2">>] } :
        LET out == create_event(events, d, NextId("events"), Instant(NextId("events")), 0)
        IN  /\ next_id["events"] < MaxRows
            /\ events' = out.events
            /\ IssueId("events", out.status)
            /\ Reply("create_event", [data |-> d, fail |-> 0], out)
            /\ OtherTablesUnchanged({"events"})

UpdateEvent ==
    /\ Serving({"events", "event_rsvps"})
    /\ \E i \in Ids, r \in WithFailures(EventUpdate, [content |-> Ab], 2) :
        LET d == r.input  f == r.fail IN
        LET out == update_event(events, i, d, f)
        IN  /\ events' = out.events
            /\ Reply("update_event", [id |-> i, data |-> d, fail |-> f], out)
            /\ UNCHANGED next_id /\ OtherTablesUnchanged({"events"})

DeleteEvent ==
    /\ Serving({"events", "event_rsvps"})
    /\ \E i \in Ids, f \in 0 .. 2 :
        LET out == delete_event(events, event_rsvps, i, f)
        IN  /\ events' = out.events
            /\ event_rsvps' = out.event_rsvps
            /\ Reply("delete_event", [id |-> i, fail |-> f], out)
            /\ UNCHANGED next_id /\ OtherTablesUnchanged({"events", "event_rsvps"})

GetEventRsvps ==
    /\ Serving({"events", "event_rsvps"})
    /\ \E i \in Ids, f \in 0 .. 1 :
        /\ Reply("get_event_rsvps", [id |-> i, fail |-> f], get_event_rsvps(event_rsvps, i, f))
        /\ UNCHANGED next_id /\ OtherTablesUnchanged({})

CreateRsvp ==
    /\ Serving({"events", "event_rsvps"})
    /\ \E r \in WithFailures(RSVPCreate, [event_id |-> 1, name |-> Ab, email |-> None], 2) :
        LET d == r.input  f == r.fail IN
        LET out == create_rsvp(events, event_rsvps, d, NextId("event_rsvps"), f)
        IN  /\ out.status = 201 => next_id["event_rsvps"] < MaxRsvps
            /\ event_rsvps' = out.event_rsvps
            /\ IssueId("event_rsvps", out.status)
            /\ Reply("create_rsvp", [data |-> d, fail |-> f], out)
            /\ OtherTablesUnchanged({"event_rsvps"})

DeleteRsvp ==
    /\ Serving({"events", "event_rsvps"})
    /\ \E i \in 1 .. (MaxRsvps + 1), f \in 0 .. 1 :
        LET out == delete_rsvp(event_rsvps, i, f)
        IN  /\ event_rsvps' = out.event_rsvps
            /\ Reply("delete_rsvp", [id |-> i, fail |-> f], out)
            /\ UNCHANGED next_id /\ OtherTablesUnchanged({"event_rsvps"})

GetEventStats ==
    /\ Serving({"events", "event_rsvps"})
    /\ \E f \in 0 .. 2 :
        /\ Reply("get_event_stats", [fail |-> f], get_event_stats(events, event_rsvps, f))
        /\ UNCHANGED next_id /\ OtherTablesUnchanged({})

(***************************************************************************)
(* payments.py                                                             *)
(***************************************************************************)
Tithe == <<"t", "i", "t", "h", "e">>
Offering == <<"o", "f", "f", "e", "r", "i", "n", "g">>

\* the receipt number the sequence of the store gives for its n-th call:
\* n in seven digits
ReceiptNumber(n) ==
    [i \in 1 .. 7 |-> Digit[((n \div (10 ^ (7 - i))) % 10) + 1]]

\* the receipt number create_payment uses when the sequence call gives none
Placeholder == <<"0", "0", "0", "0", "0", "0", "1">>

\* what get_latest_receipt_number answers for an empty table
NoReceipt == <<"0", "0", "0", "0", "0", "0", "0">>

PaymentDefaults ==
    [receipt_number |-> None, full_name |-> None, phone |-> None, amount |-> None,
     reason |-> None, payment_method |-> None, payment_date |-> None]

\* payment_method: str
Cash == <<"c", "a", "s", "h">>

\* PaymentCreate: full_name, amount, reason, payment_method and payment_date
\* are required; an amount is a whole number of dollars.  The payments of
\* today are of 1 dollar in cash; two more are of 2 dollars by another method,
\* one of them paid the day before.
PaymentCreate ==
    LET paid(d, amount, method) ==
            [k \in (DOMAIN d) \cup {"amount", "payment_method"} |->
                IF k = "amount" THEN amount
                ELSE IF k = "payment_method" THEN method ELSE d[k]]
    IN  { paid(d, 1, Cash) :
            d \in Payloads({"full_name", "reason", "payment_date"}, {"phone"},
                           [full_name |-> {Ab}, reason |-> {Tithe, Offering},
                            payment_date |-> {Nov3}, phone |-> {Empty, Seven}]) }
        \cup { paid([full_name |-> Ab, reason |-> Tithe,
                     payment_date |-> <<"2", "0", "2", "6", "1", "1", "0", "2">>],
                    2, Ab),
               paid([full_name |-> Ab, reason |-> Offering, payment_date |-> Nov3],
                    2, Ab) }

\* PaymentUpdate with a receipt_number field
PaymentUpdate_with_receipt_number ==
    Payloads({}, {"reason", "receipt_number"},
             [reason |-> {Offering}, receipt_number |-> {Placeholder}])

\* PaymentUpdate: every field is optional; it has no id and no receipt_number
PaymentUpdate ==
    Payloads({}, {"phone", "reason"},
             [phone |-> {None, Empty, Seven}, reason |-> {None, Offering}])

\* prepare_data of payments.py: None and "" become None, a date its ISO
\* string; a float is rounded to two decimals, which a whole amount has
prepare_payment_data(data) ==
    [k \in DOMAIN data |->
        IF k = "amount" THEN data[k]
        ELSE IF data[k] = None \/ data[k] = Empty THEN None
        ELSE IF k = "payment_date" THEN isoformat(data[k])
        ELSE data[k]]

format_payment(data) ==
    [id |-> data["id"],
     receipt_number |-> data["receipt_number"],
     full_name |-> data["full_name"],
     phone |-> data["phone"],
     amount |-> data["amount"],
     reason |-> data["reason"],
     payment_method |-> data["payment_method"],
     payment_date |-> data["payment_date"]]

\* the search of get_payments: full_name, receipt_number, (email,) phone
PaymentListMatches(row, search, reason) ==
    /\ Truthy(search) => \/ ILike(row["full_name"], search)
                         \/ ILike(row["receipt_number"], search)
                         \/ ILike(row["phone"], search)
    /\ Truthy(reason) => row["reason"] = reason

\* the search of get_payments_count: full_name, receipt_number(, email)
PaymentCountMatches(row, search, reason) ==
    /\ Truthy(search) => \/ ILike(row["full_name"], search)
                         \/ ILike(row["receipt_number"], search)
    /\ Truthy(reason) => row["reason"] = reason

\* .order("payment_date", desc=True): NULL first, later dates before earlier
\* ones; rows of equal date come in the order of their ids
PaymentsBefore(tbl, ids) ==
    { p \in ids \X ids :
        \/ TextLess(tbl[p[2]]["payment_date"], tbl[p[1]]["payment_date"])
        \/ tbl[p[1]]["payment_date"] = tbl[p[2]]["payment_date"] /\ p[1] < p[2] }

get_payments(tbl, search, reason, limit, offset, fail) ==
    LET ids == { i \in DOMAIN tbl : PaymentListMatches(tbl[i], search, reason) }
        rows == Range(Ordered(ids, PaymentsBefore(tbl, ids)), offset, offset + limit - 1)
    IN  IF fail = 1 THEN [status |-> 500, body |-> None]
        ELSE [status |-> 200,
              body |-> [n \in 1 .. Len(rows) |-> format_payment(tbl[rows[n]])]]

get_payments_count(tbl, search, reason, fail) ==
    IF fail = 1 THEN [status |-> 500, body |-> None]
    ELSE [status |-> 200,
          body |-> Cardinality({ i \in DOMAIN tbl :
                                   PaymentCountMatches(tbl[i], search, reason) })]

get_payment(tbl, payment_id, fail) ==
    LET result == SelectById(tbl, payment_id)
    IN  IF fail = 1 THEN [status |-> 500, body |-> None]
        ELSE IF Len(result) = 0 THEN [status |-> 404, body |-> None]
        ELSE [status |-> 200, body |-> format_payment(result[1])]

\* supabase.rpc("generate_receipt_number").execute().data: the next number of
\* the sequence when the call gives a value (rpc = "value"), nothing otherwise
generate_receipt_number(seq, rpc) ==
    IF rpc = "value"
    THEN [receipt_seq |-> seq + 1, data |-> ReceiptNumber(seq + 1)]
    ELSE [receipt_seq |-> seq, data |-> None]

\* create_payment without `else "0000001"`: it stores what the call returned
create_payment_without_placeholder(tbl, seq, payment, new_id, rpc, fail) ==
    LET receipt_result == generate_receipt_number(seq, rpc)
        data == prepare_payment_data(
                    [k \in (DOMAIN payment) \cup {"receipt_number"} |->
                        IF k = "receipt_number" THEN receipt_result.data ELSE payment[k]])
        row == NewRow(PaymentDefaults, data, new_id)
    IN  IF fail = 1
        THEN [payments |-> tbl, receipt_seq |-> seq, status |-> 500, body |-> None]
        ELSE IF fail = 2
        THEN [payments |-> tbl, receipt_seq |-> receipt_result.receipt_seq,
              status |-> 500, body |-> None]
        ELSE [payments |-> InsertRow(tbl, row), receipt_seq |-> receipt_result.receipt_seq,
              status |-> 201, body |-> format_payment(row)]

\* new_id: str(uuid.uuid4())
create_payment(tbl, seq, payment, new_id, rpc, fail) ==
    LET receipt_result == generate_receipt_number(seq, rpc)
        receipt_number == IF Truthy(receipt_result.data) THEN receipt_result.data
                          ELSE Placeholder
        data == prepare_payment_data(
                    [k \in (DOMAIN payment) \cup {"receipt_number"} |->
                        IF k = "receipt_number" THEN receipt_number ELSE payment[k]])
        row == NewRow(PaymentDefaults, data, new_id)
    IN  IF fail = 1
        THEN [payments |-> tbl, receipt_seq |-> seq, status |-> 500, body |-> None]
        ELSE IF fail = 2
        THEN [payments |-> tbl, receipt_seq |-> receipt_result.receipt_seq,
              status |-> 500, body |-> None]
        ELSE [payments |-> InsertRow(tbl, row), receipt_seq |-> receipt_result.receipt_seq,
              status |-> 201, body |-> format_payment(row)]

\* update_payment dumping the whole model (no exclude_unset) and keeping the
\* None values: every field the request leaves out is written as NULL
update_payment_replacing(tbl, payment_id, payment, fail) ==
    LET existing == SelectById(tbl, payment_id)
        sent == prepare_payment_data(payment)
        update_data == [k \in {"phone", "reason"} |->
                           IF k \in DOMAIN sent THEN sent[k] ELSE None]
        updated == UpdateRow(tbl, payment_id, update_data)
    IN  IF fail = 1 THEN [payments |-> tbl, status |-> 500, body |-> None]
        ELSE IF Len(existing) = 0 THEN [payments |-> tbl, status |-> 404, body |-> None]
        ELSE IF fail = 2 THEN [payments |-> tbl, status |-> 500, body |-> None]
        ELSE [payments |-> updated, status |-> 200,
              body |-> format_payment(updated[payment_id])]

update_payment(tbl, payment_id, payment, fail) ==
    LET existing == SelectById(tbl, payment_id)
        update_data == RemoveNone(prepare_payment_data(payment))
        updated == UpdateRow(tbl, payment_id, update_data)
    IN  IF fail = 1 THEN [payments |-> tbl, status |-> 500, body |-> None]
        ELSE IF Len(existing) = 0 THEN [payments |-> tbl, status |-> 404, body |-> None]
        ELSE IF DOMAIN update_data = {}
        THEN [payments |-> tbl, status |-> 200, body |-> format_payment(existing[1])]
        ELSE IF fail = 2 THEN [payments |-> tbl, status |-> 500, body |-> None]
        ELSE [payments |-> updated, status |-> 200,
              body |-> format_payment(updated[payment_id])]

delete_payment(tbl, payment_id, fail) ==
    LET result == SelectById(tbl, payment_id)
    IN  IF fail = 1 THEN [payments |-> tbl, status |-> 500, body |-> None]
        ELSE IF Len(result) = 0 THEN [payments |-> tbl, status |-> 404, body |-> None]
        ELSE [payments |-> DeleteRow(tbl, payment_id), status |-> 204, body |-> None]

\* by_reason and by_method of the default are empty dicts
PaymentStatsDefault ==
    [total |-> 0, total_amount |-> 0, today_total |-> 0,
     by_reason |-> [r \in {} |-> 0], by_method |-> [m \in {} |-> 0]]

\* sum(float(p["amount"]) for p in payments), over the payments `ids`; the
\* amounts are added up by halves of the range of the identifiers
SumAmounts(tbl, ids) ==
    LET RECURSIVE Between(_, _)
        Between(lo, hi) ==
            IF lo = hi THEN (IF lo \in ids THEN tbl[lo]["amount"] ELSE 0)
            ELSE Between(lo, (lo + hi) \div 2) + Between(((lo + hi) \div 2) + 1, hi)
    IN  IF ids = {} THEN 0
        ELSE Between(CHOOSE i \in ids : \A j \in ids : i <= j,
                     CHOOSE i \in ids : \A j \in ids : j <= i)

\* the body of get_payment_stats with its backend call answering
PaymentStats(tbl) ==
    LET ids == DOMAIN tbl
        today == isoformat(Nov3)
    IN  [total |-> Cardinality(ids),
         total_amount |-> SumAmounts(tbl, ids),
         today_total |->
             SumAmounts(tbl, { i \in ids : tbl[i]["payment_date"] = today }),
         by_reason |->
             [r \in { tbl[i]["reason"] : i \in ids } |->
                 SumAmounts(tbl, { i \in ids : tbl[i]["reason"] = r })],
         by_method |->
             [m \in { tbl[i]["payment_method"] : i \in ids } |->
                 SumAmounts(tbl, { i \in ids : tbl[i]["payment_method"] = m })]]

\* get_payment_stats propagating the failure of its backend call
get_payment_stats_raising(tbl, fail) ==
    IF fail = 1 THEN [status |-> 500, body |-> None]
    ELSE [status |-> 200, body |-> PaymentStats(tbl)]

\* get_payment_stats counting every payment into today_total
get_payment_stats_every_day(tbl, fail) ==
    IF fail = 1 THEN [status |-> 200, body |-> PaymentStatsDefault]
    ELSE [status |-> 200,
          body |-> [k \in DOMAIN PaymentStats(tbl) |->
                       IF k = "today_total" THEN PaymentStats(tbl).total_amount
                       ELSE PaymentStats(tbl)[k]]]

get_payment_stats(tbl, fail) ==
    IF fail = 1 THEN [status |-> 200, body |-> PaymentStatsDefault]
    ELSE [status |-> 200, body |-> PaymentStats(tbl)]

\* get_latest_receipt_number ordering without desc=True
get_latest_receipt_number_ascending(tbl, fail) ==
    LET first == { i \in DOMAIN tbl : \A j \in DOMAIN tbl :
                     ~TextLess(tbl[j]["receipt_number"], tbl[i]["receipt_number"]) }
    IN  IF fail = 1 THEN [status |-> 500, body |-> None]
        ELSE IF DOMAIN tbl = {} THEN [status |-> 200, body |-> NoReceipt]
        ELSE [status |-> 200, body |-> tbl[CHOOSE i \in first : TRUE]["receipt_number"]]

\* .order("receipt_number", desc=True).limit(1)
get_latest_receipt_number(tbl, fail) ==
    LET latest == { i \in DOMAIN tbl : \A j \in DOMAIN tbl :
                      ~TextLess(tbl[i]["receipt_number"], tbl[j]["receipt_number"]) }
    IN  IF fail = 1 THEN [status |-> 500, body |-> None]
        ELSE IF DOMAIN tbl = {} THEN [status |-> 200, body |-> NoReceipt]
        ELSE [status |-> 200, body |-> tbl[CHOOSE i \in latest : TRUE]["receipt_number"]]

GetPayments ==
    /\ Serving({"payments"})
    /\ \E r \in WithFailures(Searches \X {None, Tithe} \X Limits \X Offsets, <<None, None, 1, 0>>, 1) :
        LET s == r.input[1]  g == r.input[2]  l == r.input[3]  o == r.input[4]  f == r.fail IN
        /\ Reply("get_payments",
                 [search |-> s, reason |-> g, limit |-> l, offset |-> o, fail |-> f],
                 get_payments(payments, s, g, l, o, f))
        /\ UNCHANGED next_id /\ OtherTablesUnchanged({})

GetPaymentsCount ==
    /\ Serving({"payments"})
    /\ \E r \in WithFailures(Searches \X {None, Tithe}, <<None, None>>, 1) :
        LET s == r.input[1]  g == r.input[2]  f == r.fail IN
        /\ Reply("get_payments_count", [search |-> s, reason |-> g, fail |-> f],
                 get_payments_count(payments, s, g, f))
        /\ UNCHANGED next_id /\ OtherTablesUnchanged({})

GetPayment ==
    /\ Serving({"payments"})
    /\ \E i \in Ids, f \in 0 .. 1 :
        /\ Reply("get_payment", [id |-> i, fail |-> f], get_payment(payments, i, f))
        /\ UNCHANGED next_id /\ OtherTablesUnchanged({})

CreatePayment ==
    /\ Serving({"payments"})
    /\ \E r \in WithFailures(PaymentCreate \X {"value", "none"},
                          <<[full_name |-> Ab, amount |-> 1, reason |-> Tithe,
                            payment_method |-> Cash, payment_date |-> Nov3], "value">>, 2) :
        LET d == r.input[1]  rpc == r.input[2]  f == r.fail IN
        LET out == create_payment(payments, receipt_seq, d, NextId("payments"), rpc, f)
        IN  /\ out.status = 201 => next_id["payments"] < MaxRows
            /\ rpc = "value" => receipt_seq < MaxReceipts
            /\ payments' = out.payments
            /\ receipt_seq' = out.receipt_seq
            /\ IssueId("payments", out.status)
            /\ Reply("create_payment", [data |-> d, rpc |-> rpc, fail |-> f], out)
            /\ OtherTablesUnchanged({"payments", "receipt_seq"})

UpdatePayment ==
    /\ Serving({"payments"})
    /\ \E i \in Ids, r \in WithFailures(PaymentUpdate, [phone |-> Seven], 2) :
        LET d == r.input  f == r.fail IN
        LET out == update_payment(payments, i, d, f)
        IN  /\ payments' = out.payments
            /\ Reply("update_payment", [id |-> i, data |-> d, fail |-> f], out)
            /\ UNCHANGED next_id /\ OtherTablesUnchanged({"payments"})

DeletePayment ==
    /\ Serving({"payments"})
    /\ \E i \in Ids, f \in 0 .. 1 :
        LET out == delete_payment(payments, i, f)
        IN  /\ payments' = out.payments
            /\ Reply("delete_payment", [id |-> i, fail |-> f], out)
            /\ UNCHANGED next_id /\ OtherTablesUnchanged({"payments"})

GetPaymentStats ==
    /\ Serving({"payments"})
    /\ \E f \in 0 .. 1 :
        /\ Reply("get_payment_stats", [fail |-> f], get_payment_stats(payments, f))
        /\ UNCHANGED next_id /\ OtherTablesUnchanged({})

GetLatestReceiptNumber ==
    /\ Serving({"payments"})
    /\ \E f \in 0 .. 1 :
        /\ Reply("get_latest_receipt_number", [fail |-> f],
                 get_latest_receipt_number(payments, f))
        /\ UNCHANGED next_id /\ OtherTablesUnchanged({})

Init ==
    /\ members = EmptyTable
    /\ equipment = EmptyTable
    /\ events = EmptyTable
    /\ event_rsvps = EmptyTable
    /\ payments = EmptyTable
    /\ next_id = [t \in Tables |-> 0]
    /\ receipt_seq = 0
    /\ resp = Idle
    /\ running = EmptyBag
    /\ images = EmptyTable

\* one handler of one router at a time, or the delivery of its response
Next ==
    \/ GetMembers \/ GetMembersCount \/ GetMember \/ CreateMember
    \/ UpdateMember \/ DeleteMember \/ GetMemberStats
    \/ GetEquipment \/ GetEquipmentCount \/ GetEquipmentById
    \/ CreateEquipment \/ UpdateEquipment \/ DeleteEquipment
    \/ GetEquipmentStats
    \/ UploadImage
    \/ GetEvents([search : Searches, type : {None}, category : {None},
          featured : {None}, upcoming : {None},
          limit : Limits, offset : Offsets])
    \/ GetEvent \/ CreateEvent \/ UpdateEvent
    \/ DeleteEvent \/ GetEventRsvps \/ CreateRsvp \/ DeleteRsvp
    \/ GetEventStats
    \/ GetPayments \/ GetPaymentsCount \/ GetPayment \/ CreatePayment
    \/ UpdatePayment \/ DeletePayment \/ GetPaymentStats
    \/ GetLatestReceiptNumber
    \/ Deliver

Spec == Init /\ [][Next]_vars

\* the list endpoints over the collections the creates build, unpublished
\* events included
SpecListing ==
    /\ Init
    /\ [][ \/ CreateMember \/ GetMembers
          \/ CreateEquipment \/ GetEquipment
          \/ CreateEvent \/ CreateDraftEvent
          \/ GetEvents([search : Searches, type : {None}, category : {None},
                    featured : {None}, upcoming : {None},
                    limit : Limits, offset : Offsets])
          \/ GetEvent
          \/ CreatePayment \/ GetPayments
          \/ Deliver ]_vars

(***************************************************************************)
(* Interleaved handlers.  A request in flight is a record: the handler     *)
(* `op`, its path parameter `id`, the backend call `pc` it makes next, in  *)
(* `held` the rows it keeps of the answers so far, and in `base` the view  *)
(* counter its event had when the request arrived.  One step is one        *)
(* backend call with the Python code up to the next call; the step of the  *)
(* last call answers the request.  Every backend call answers.             *)
(***************************************************************************)
Request(op, id, pc, base) == [op |-> op, id |-> id, pc |-> pc, held |-> <<>>, base |-> base]

\* the body each handler is sent
Body(req) ==
    CASE req.op = "create_member" -> [full_name |-> Ab]
      [] req.op = "update_member" -> [email |-> Seven]
      [] req.op = "create_event" -> [title |-> Ab]
      [] req.op = "update_event" -> [content |-> Ab]
      [] req.op = "create_rsvp" -> [event_id |-> req.id, name |-> Ab, email |-> None]

\* the identifiers a request can name in table t: the ones issued so far,
\* and one the store never issues
Known(t) == (1 .. next_id[t]) \cup {MaxRows + 1}

\* the requests that can arrive
Arrivals ==
    { Request(op, NoId, "insert", 0) : op \in {"create_member", "create_event"} }
    \cup { Request("update_member", i, "select", 0) : i \in Known("members") }
    \cup { Request("delete_member", i, "delete", 0) : i \in Known("members") }
    \cup { Request(op, i, "select", 0) : op \in {"update_event", "create_rsvp"},
                                         i \in Known("events") }
    \cup { Request("delete_event", i, "delete_rsvps", 0) : i \in Known("events") }
    \cup { Request("get_event", i, "update",
                    IF i \in DOMAIN events THEN events[i]["views"] ELSE 0) :
              i \in Known("events") }

\* the requests in flight in handler `op` about to make the call `pc`
At(op, pc) == { req \in BagToSet(running) : req.op = op /\ req.pc = pc }

\* the handler of `req` goes on to its call `pc`, holding `held`
Advance(req, pc, held) ==
    /\ running' = (running (-) SetToBag({req}))
                      (+) SetToBag({[req EXCEPT !.pc = pc, !.held = held]})
    /\ resp' = resp

\* the handler of `req` answers
Answer(req, status, body) ==
    /\ running' = running (-) SetToBag({req})
    /\ resp' = [op |-> req.op, arg |-> [id |-> req.id, base |-> req.base],
                status |-> status, body |-> body]

\* a request arrives and its handler starts; a router is explored while no
\* other router has issued an identifier or a receipt number
Arrive(ops) ==
    \E req \in Arrivals :
        LET router == IF req.op \in {"create_member", "update_member", "delete_member"}
                      THEN {"members"}
                      ELSE {"events", "event_rsvps"}
            \* the rows a creating handler may still add to its table
            room == CASE req.op = "create_member" -> MaxRows - next_id["members"]
                      [] req.op = "create_event" -> MaxRows - next_id["events"]
                      [] req.op = "create_rsvp" -> MaxRsvps - next_id["event_rsvps"]
                      [] OTHER -> MaxRunning
        IN
        /\ req.op \in ops
        /\ BagCardinality(running) < MaxRunning
        /\ \A t \in Tables \ router : next_id[t] = 0
        /\ receipt_seq = 0
        /\ BagCardinality(running) < room
        /\ req.op = "get_event" => req.base + BagCardinality(running) < MaxReads
        /\ running' = running (+) SetToBag({req})
        /\ UNCHANGED <<next_id, resp>> /\ OtherTablesUnchanged({"running"})

\* create_member: the insert
CreateMemberInsert ==
    \E req \in At("create_member", "insert") :
        LET out == create_member(members, Body(req), NextId("members"), 0)
        IN  /\ members' = out.members
            /\ IssueId("members", out.status)
            /\ Answer(req, out.status, out.body)
            /\ OtherTablesUnchanged({"members", "running"})

\* update_member: the select of the existing row
UpdateMemberSelect ==
    \E req \in At("update_member", "select") :
        LET existing == SelectById(members, req.id)
        IN  /\ IF Len(existing) = 0 THEN Answer(req, 404, None)
               ELSE Advance(req, "update", existing)
            /\ UNCHANGED next_id /\ OtherTablesUnchanged({"running"})

\* update_member: the update, and result.data[0] of its answer, which raises
\* IndexError when the update matched no row
UpdateMemberUpdate ==
    \E req \in At("update_member", "update") :
        LET supabase_data == prepare_data_for_supabase(Body(req))
            result == SelectById(UpdateRow(members, req.id, supabase_data), req.id)
        IN  /\ members' = UpdateRow(members, req.id, supabase_data)
            /\ IF Len(result) = 0 THEN Answer(req, 500, None)
               ELSE Answer(req, 200, format_member(result[1]))
            /\ UNCHANGED next_id /\ OtherTablesUnchanged({"members", "running"})

\* delete_member: the delete
DeleteMemberDelete ==
    \E req \in At("delete_member", "delete") :
        LET out == delete_member(members, req.id, 0)
        IN  /\ members' = out.members
            /\ Answer(req, out.status, out.body)
            /\ UNCHANGED next_id /\ OtherTablesUnchanged({"members", "running"})

\* create_event: the insert
CreateEventInsert ==
    \E req \in At("create_event", "insert") :
        LET out == create_event(events, Body(req), NextId("events"),
                                Instant(NextId("events")), 0)
        IN  /\ events' = out.events
            /\ IssueId("events", out.status)
            /\ Answer(req, out.status, out.body)
            /\ OtherTablesUnchanged({"events", "running"})

\* the first call of get_event writing the constant 1 in place of views + 1
GetEventUpdate_to_one ==
    \E req \in At("get_event", "update") :
        /\ events' = [e \in DOMAIN events |->
                          IF e = req.id THEN [events[e] EXCEPT !["views"] = 1]
                          ELSE events[e]]
        /\ Advance(req, "select", <<>>)
        /\ UNCHANGED next_id /\ OtherTablesUnchanged({"events", "running"})

\* get_event: the update of the view counter
GetEventUpdate ==
    \E req \in At("get_event", "update") :
        /\ events' = IncrementViews(events, req.id)
        /\ Advance(req, "select", <<>>)
        /\ UNCHANGED next_id /\ OtherTablesUnchanged({"events", "running"})

\* get_event: the select of the event
GetEventSelect ==
    \E req \in At("get_event", "select") :
        LET result == SelectById(events, req.id)
        IN  /\ IF Len(result) = 0 THEN Answer(req, 404, None)
               ELSE Advance(req, "count", result)
            /\ UNCHANGED next_id /\ OtherTablesUnchanged({"running"})

\* get_event: the count of the RSVPs
GetEventCount ==
    \E req \in At("get_event", "count") :
        /\ Answer(req, 200, WithRsvpCount(req.held[1], RsvpCount(event_rsvps, req.id)))
        /\ UNCHANGED next_id /\ OtherTablesUnchanged({"running"})

\* update_event: the select of the existing row
UpdateEventSelect ==
    \E req \in At("update_event", "select") :
        LET existing == SelectById(events, req.id)
        IN  /\ IF Len(existing) = 0 THEN Answer(req, 404, None)
               ELSE Advance(req, "update", existing)
            /\ UNCHANGED next_id /\ OtherTablesUnchanged({"running"})

\* update_event: the update, and result.data[0] of its answer
UpdateEventUpdate ==
    \E req \in At("update_event", "update") :
        LET update_data == RemoveNone(prepare_data(Body(req)))
            result == SelectById(UpdateRow(events, req.id, update_data), req.id)
        IN  /\ events' = UpdateRow(events, req.id, update_data)
            /\ IF Len(result) = 0 THEN Answer(req, 500, None)
               ELSE Answer(req, 200, EventResponse(result[1]))
            /\ UNCHANGED next_id /\ OtherTablesUnchanged({"events", "running"})

\* delete_event: the delete of the RSVPs of the event
DeleteEventRsvps ==
    \E req \in At("delete_event", "delete_rsvps") :
        /\ event_rsvps' = DeleteRsvpsOf(event_rsvps, req.id)
        /\ Advance(req, "delete", <<>>)
        /\ UNCHANGED next_id /\ OtherTablesUnchanged({"event_rsvps", "running"})

\* delete_event: the delete of the event
DeleteEventDelete ==
    \E req \in At("delete_event", "delete") :
        LET result == SelectById(events, req.id)
        IN  /\ events' = DeleteRow(events, req.id)
            /\ IF Len(result) = 0 THEN Answer(req, 404, None)
               ELSE Answer(req, 204, None)
            /\ UNCHANGED next_id /\ OtherTablesUnchanged({"events", "running"})

\* create_rsvp without `if not event.data`: the insert follows in any case
CreateRsvpSelect_unchecked ==
    \E req \in At("create_rsvp", "select") :
        LET event == SelectById(events, req.id)
        IN  /\ Advance(req, "insert", event)
            /\ UNCHANGED next_id /\ OtherTablesUnchanged({"running"})

\* create_rsvp: the select of the event
CreateRsvpSelect ==
    \E req \in At("create_rsvp", "select") :
        LET event == SelectById(events, req.id)
        IN  /\ IF Len(event) = 0 THEN Answer(req, 404, None)
               ELSE Advance(req, "insert", event)
            /\ UNCHANGED next_id /\ OtherTablesUnchanged({"running"})

\* create_rsvp: the insert
CreateRsvpInsert ==
    \E req \in At("create_rsvp", "insert") :
        LET rsvp == Body(req)
            row == [id |-> NextId("event_rsvps"), event_id |-> rsvp.event_id,
                    name |-> rsvp.name, email |-> rsvp.email]
        IN  /\ event_rsvps' = InsertRow(event_rsvps, row)
            /\ IssueId("event_rsvps", 201)
            /\ Answer(req, 201, row)
            /\ OtherTablesUnchanged({"event_rsvps", "running"})

\* the handlers that create and read events interleave
SpecReading ==
    /\ Init
    /\ [][ \/ Arrive({"create_event", "get_event"})
          \/ CreateEventInsert \/ GetEventUpdate \/ GetEventSelect \/ GetEventCount ]_vars

\* the handlers that create, update and delete rows interleave
SpecUpdating ==
    /\ Init
    /\ [][ \/ Arrive({"create_member", "update_member", "delete_member",
                     "create_event", "update_event", "delete_event"})
          \/ CreateMemberInsert \/ UpdateMemberSelect \/ UpdateMemberUpdate
          \/ DeleteMemberDelete
          \/ CreateEventInsert \/ UpdateEventSelect \/ UpdateEventUpdate
          \/ DeleteEventRsvps \/ DeleteEventDelete ]_vars

\* the handlers that create and delete events and create RSVPs interleave
SpecReplying ==
    /\ Init
    /\ [][ \/ Arrive({"create_event", "delete_event", "create_rsvp"})
          \/ CreateEventInsert \/ DeleteEventRsvps \/ DeleteEventDelete
          \/ CreateRsvpSelect \/ CreateRsvpInsert ]_vars

(***************************************************************************)
(* The stats handlers over large tables.  The tables start as n creates of *)
(* one payload leave them, the p-th create with another payload, for sizes *)
(* around the 1000 rows the stats handlers of directory.py and             *)
(* equipment.py limit their select to.                                     *)
(***************************************************************************)
StatsInit ==
    LET Sizes == {0, 1, StatsLimit - 1, StatsLimit, StatsLimit + 1}
        FilledMembers(n, p) ==
            [i \in 1 .. n |->
                create_member(EmptyTable,
                              [full_name |-> Ab,
                               gender |-> IF i = p THEN Female ELSE Male],
                              i, 0).members[i]]
        FilledEquipment(n, p) ==
            [i \in 1 .. n |->
                create_equipment(EmptyTable,
                                 [name |-> Ab,
                                  status |-> IF i = p THEN InUse ELSE Available],
                                 i, 0).equipment[i]]
        FilledEvents(n, p) ==
            [i \in 1 .. n |->
                create_event(EmptyTable,
                             IF i = p THEN [title |-> Ab, content |-> Ab]
                             ELSE [title |-> Ab],
                             i, Instant(0), 0).events[i]]
        FilledPayments(n, p) ==
            [i \in 1 .. n |->
                create_payment(EmptyTable, i - 1,
                               [full_name |-> Ab, amount |-> 1,
                                reason |-> IF i = p THEN Offering ELSE Tithe,
                                payment_method |-> Cash, payment_date |-> Nov3],
                               i, "value", 0).payments[i]]
    IN  \E t \in {"members", "equipment", "events", "payments"}, n \in Sizes :
            \E p \in {0, 1, n} :
                /\ members = IF t = "members" THEN FilledMembers(n, p) ELSE EmptyTable
                /\ equipment = IF t = "equipment" THEN FilledEquipment(n, p)
                               ELSE EmptyTable
                /\ events = IF t = "events" THEN FilledEvents(n, p) ELSE EmptyTable
                /\ event_rsvps = EmptyTable
                /\ payments = IF t = "payments" THEN FilledPayments(n, p) ELSE EmptyTable
                /\ next_id = [u \in Tables |-> IF u = t THEN n ELSE 0]
                /\ receipt_seq = IF t = "payments" THEN n ELSE 0
                /\ resp = Idle
                /\ running = EmptyBag
                /\ images = EmptyTable

SpecStats ==
    /\ StatsInit
    /\ [][ \/ CreateMember \/ DeleteMember
          \/ GetMemberStats \/ GetEquipmentStats \/ GetEventStats \/ GetPaymentStats
          \/ Deliver ]_vars

\* the image upload alone
SpecUpload ==
    /\ Init
    /\ [][ \/ UploadImage
          \/ Deliver ]_vars

\* the events router with published and unpublished events, get_events under
\* every combination of its type, category, featured and upcoming parameters
SpecPublishing ==
    /\ Init
    /\ [][ \/ CreateEvent \/ CreateDraftEvent
          \/ GetEvents([search : {None, <<"a">>}, type : {None, EventType, Ab},
                        category : {None, Ab}, featured : {None, True, False},
                        upcoming : {None, True, False},
                        limit : {MaxRows}, offset : {0}])
          \/ GetEvent \/ UpdateEvent
          \/ Deliver ]_vars

(***************************************************************************)
(* Properties.                                                             *)
(***************************************************************************)

\* C1: once delete_event(e) has answered 204, at any later point of a
\* sequence of completed operations no RSVP with event_id e is stored and
\* get_event_rsvps(e) answers with the empty list.  An event is deleted when
\* its identifier was issued and its row is gone.
C1_DeletedEventHasNoRsvps ==
    \A e \in Ids :
        \/ (resp.op = "delete_event" /\ resp.status = 204 /\ resp.arg.id = e)
        \/ (e <= next_id["events"] /\ e \notin DOMAIN events)
        => /\ \A r \in DOMAIN event_rsvps : event_rsvps[r]["event_id"] # e
           /\ get_event_rsvps(event_rsvps, e, 0) = [status |-> 200, body |-> <<>>]

\* delete_event has answered 204 after an RSVP had been created
C1_Witness ==
    /\ resp.op = "delete_event" /\ resp.status = 204
    /\ next_id["event_rsvps"] > 0
    /\ event_rsvps = EmptyTable

\* C2: create_rsvp for an event_id that identifies no stored event leaves the
\* RSVP table as it was, never answers with success, and answers 404 when
\* the lookup of the event answers.
C2_RsvpForMissingEvent ==
    [][(resp'.op = "create_rsvp" /\ resp'.arg.data.event_id \notin DOMAIN events)
          => /\ event_rsvps' = event_rsvps
             /\ resp'.status \in {404, 500}
             /\ resp'.arg.fail = 0 => resp'.status = 404]_vars

\* create_rsvp has answered 404 while an RSVP was stored
C2_Witness ==
    /\ resp.op = "create_rsvp" /\ resp.status = 404
    /\ resp.arg.data.event_id \notin DOMAIN events
    /\ event_rsvps # EmptyTable

\* C3: after any sequence of create_payment calls served one at a time, no
\* two stored payments have the same receipt_number, whatever the sequence
\* call gave (a value or nothing).
C3_ReceiptNumbersUnique ==
    \A i, j \in DOMAIN payments :
        i # j => payments[i]["receipt_number"] # payments[j]["receipt_number"]

\* C4: get-by-id, update and delete of an identifier that is not in the
\* table never answer with success, and answer 404 when the backend answers;
\* for members, equipment, events, payments and the deletion of an RSVP.
C4_AbsentIdIsNotFound ==
    [][/\ (/\ resp'.op \in {"get_member", "update_member", "delete_member"}
           /\ resp'.arg.id \notin DOMAIN members)
          => /\ resp'.status \in {404, 500}
             /\ resp'.arg.fail = 0 => resp'.status = 404
       /\ (/\ resp'.op \in {"get_equipment_by_id", "update_equipment", "delete_equipment"}
           /\ resp'.arg.id \notin DOMAIN equipment)
          => /\ resp'.status \in {404, 500}
             /\ resp'.arg.fail = 0 => resp'.status = 404
       /\ (/\ resp'.op \in {"get_event", "update_event", "delete_event"}
           /\ resp'.arg.id \notin DOMAIN events)
          => /\ resp'.status \in {404, 500}
             /\ resp'.arg.fail = 0 => resp'.status = 404
       /\ (/\ resp'.op \in {"get_payment", "update_payment", "delete_payment"}
           /\ resp'.arg.id \notin DOMAIN payments)
          => /\ resp'.status \in {404, 500}
             /\ resp'.arg.fail = 0 => resp'.status = 404
       /\ (resp'.op = "delete_rsvp" /\ resp'.arg.id \notin DOMAIN event_rsvps)
          => /\ resp'.status \in {404, 500}
             /\ resp'.arg.fail = 0 => resp'.status = 404]_vars

\* delete_event has answered 404 for an identifier never issued, with an
\* event stored
C4_Witness ==
    /\ resp.op = "delete_event" /\ resp.status = 404
    /\ resp.arg.id > next_id["events"]
    /\ events # EmptyTable

\* C5: a create that answers 201 returns a record with a non-empty id, and
\* the get-by-id of that id served next returns a record equal to the created
\* one on the id and on every field the client sent.
C5_CreatedIsFetched ==
    /\ (resp.op = "create_member" /\ resp.status = 201)
       => LET got == get_member(members, resp.body["id"], 0)
          IN  /\ resp.body["id"] # NoId
              /\ got.status = 200
              /\ \A k \in {"id"} \cup DOMAIN resp.arg.data : got.body[k] = resp.body[k]
    /\ (resp.op = "create_equipment" /\ resp.status = 201)
       => LET got == get_equipment_by_id(equipment, resp.body["id"], 0)
          IN  /\ resp.body["id"] # NoId
              /\ got.status = 200
              /\ \A k \in {"id"} \cup DOMAIN resp.arg.data : got.body[k] = resp.body[k]
    /\ (resp.op = "create_event" /\ resp.status = 201)
       => LET got == get_event(events, event_rsvps, resp.body["id"], 0)
          IN  /\ resp.body["id"] # NoId
              /\ got.status = 200
              /\ \A k \in {"id"} \cup DOMAIN resp.arg.data : got.body[k] = resp.body[k]
    /\ (resp.op = "create_payment" /\ resp.status = 201)
       => LET got == get_payment(payments, resp.body["id"], 0)
          IN  /\ resp.body["id"] # NoId
              /\ got.status = 200
              /\ \A k \in {"id"} \cup DOMAIN resp.arg.data : got.body[k] = resp.body[k]

\* create_member has answered 201 for a payload whose email is ""
C5_Witness ==
    /\ resp.op = "create_member" /\ resp.status = 201
    /\ "email" \in DOMAIN resp.arg.data
    /\ resp.arg.data["email"] = Empty

\* C6: in directory and equipment, an update of a stored record that carries
\* no field issues no write (the update call is never made, so its failing
\* changes nothing), leaves the table as it was and answers with the stored
\* record; the same request served again gives the same answer and table.
C6_EmptyUpdateIsNoOp ==
    [][/\ (/\ resp'.op = "update_member" /\ resp'.arg.fail = 0
           /\ DOMAIN resp'.arg.data = {} /\ resp'.arg.id \in DOMAIN members)
          => /\ members' = members
             /\ resp'.status = 200
             /\ resp'.body = format_member(members[resp'.arg.id])
             /\ update_member(members, resp'.arg.id, resp'.arg.data, 2)
                    = update_member(members, resp'.arg.id, resp'.arg.data, 0)
             /\ update_member(members', resp'.arg.id, resp'.arg.data, 0)
                    = [members |-> members', status |-> resp'.status, body |-> resp'.body]
       /\ (/\ resp'.op = "update_equipment" /\ resp'.arg.fail = 0
           /\ DOMAIN resp'.arg.data = {} /\ resp'.arg.id \in DOMAIN equipment)
          => /\ equipment' = equipment
             /\ resp'.status = 200
             /\ resp'.body = format_equipment(equipment[resp'.arg.id])
             /\ update_equipment(equipment, resp'.arg.id, resp'.arg.data, 2)
                    = update_equipment(equipment, resp'.arg.id, resp'.arg.data, 0)
             /\ update_equipment(equipment', resp'.arg.id, resp'.arg.data, 0)
                    = [equipment |-> equipment', status |-> resp'.status,
                       body |-> resp'.body]]_vars

\* update_member has answered an update without fields of a stored member
C6_Witness ==
    /\ resp.op = "update_member" /\ resp.status = 200
    /\ DOMAIN resp.arg.data = {}
    /\ resp.arg.id \in DOMAIN members
    /\ members[resp.arg.id]["email"] = Seven

\* C7: an update that answers with success changes only the fields its
\* request carries: every other field of the target record and every other
\* record of the table are as they were.
C7_UpdateChangesOnlySentFields ==
    [][/\ (resp'.op = "update_member" /\ resp'.status = 200)
          => /\ DOMAIN members' = DOMAIN members
             /\ \A i \in DOMAIN members \ {resp'.arg.id} : members'[i] = members[i]
             /\ \A k \in ({"id"} \cup DOMAIN MemberDefaults) \ DOMAIN resp'.arg.data :
                    members'[resp'.arg.id][k] = members[resp'.arg.id][k]
       /\ (resp'.op = "update_equipment" /\ resp'.status = 200)
          => /\ DOMAIN equipment' = DOMAIN equipment
             /\ \A i \in DOMAIN equipment \ {resp'.arg.id} : equipment'[i] = equipment[i]
             /\ \A k \in ({"id"} \cup DOMAIN EquipmentDefaults) \ DOMAIN resp'.arg.data :
                    equipment'[resp'.arg.id][k] = equipment[resp'.arg.id][k]
       /\ (resp'.op = "update_event" /\ resp'.status = 200)
          => /\ DOMAIN events' = DOMAIN events
             /\ event_rsvps' = event_rsvps
             /\ \A i \in DOMAIN events \ {resp'.arg.id} : events'[i] = events[i]
             /\ \A k \in ({"id"} \cup DOMAIN EventDefaults) \ DOMAIN resp'.arg.data :
                    events'[resp'.arg.id][k] = events[resp'.arg.id][k]
       /\ (resp'.op = "update_payment" /\ resp'.status = 200)
          => /\ DOMAIN payments' = DOMAIN payments
             /\ \A i \in DOMAIN payments \ {resp'.arg.id} : payments'[i] = payments[i]
             /\ \A k \in ({"id"} \cup DOMAIN PaymentDefaults) \ DOMAIN resp'.arg.data :
                    payments'[resp'.arg.id][k] = payments[resp'.arg.id][k]]_vars

\* update_payment has set the reason alone of one of two stored payments,
\* whose phone is not NULL
C7_Witness ==
    /\ resp.op = "update_payment" /\ resp.status = 200
    /\ DOMAIN resp.arg.data = {"reason"}
    /\ resp.body["reason"] = Offering
    /\ resp.body["phone"] = Seven
    /\ Cardinality(DOMAIN payments) = 2

\* C8: an update that answers with success and sends a field as null leaves
\* the stored field NULL in directory and equipment, and as it was in events
\* and payments.
C8_ExplicitNull ==
    [][/\ (resp'.op = "update_member" /\ resp'.status = 200)
          => \A k \in DOMAIN resp'.arg.data :
                 resp'.arg.data[k] = None => members'[resp'.arg.id][k] = None
       /\ (resp'.op = "update_equipment" /\ resp'.status = 200)
          => \A k \in DOMAIN resp'.arg.data :
                 resp'.arg.data[k] = None => equipment'[resp'.arg.id][k] = None
       /\ (resp'.op = "update_event" /\ resp'.status = 200)
          => \A k \in DOMAIN resp'.arg.data :
                 resp'.arg.data[k] = None
                     => events'[resp'.arg.id][k] = events[resp'.arg.id][k]
       /\ (resp'.op = "update_payment" /\ resp'.status = 200)
          => \A k \in DOMAIN resp'.arg.data :
                 resp'.arg.data[k] = None
                     => payments'[resp'.arg.id][k] = payments[resp'.arg.id][k]]_vars

\* update_event has answered an update that sends content as null for an
\* event whose content is stored
C8_Witness ==
    /\ resp.op = "update_event" /\ resp.status = 200
    /\ "content" \in DOMAIN resp.arg.data
    /\ resp.arg.data["content"] = None
    /\ events[resp.arg.id]["content"] = Ab

\* C9: each of the four stats handlers answers with success whatever its
\* backend calls do, and with its all-zero default object when one of them
\* fails.
C9_StatsFailSoft ==
    /\ resp.op \in {"get_member_stats", "get_equipment_stats", "get_event_stats",
                    "get_payment_stats"} => resp.status = 200
    /\ (resp.op = "get_member_stats" /\ resp.arg.fail # 0) => resp.body = MemberStatsDefault
    /\ (resp.op = "get_equipment_stats" /\ resp.arg.fail # 0)
       => resp.body = EquipmentStatsDefault
    /\ (resp.op = "get_event_stats" /\ resp.arg.fail # 0) => resp.body = EventStatsDefault
    /\ (resp.op = "get_payment_stats" /\ resp.arg.fail # 0)
       => resp.body = PaymentStatsDefault

\* get_payment_stats has answered with the default while a payment is
\* stored and its backend call failed
C9_Witness ==
    /\ resp.op = "get_payment_stats" /\ resp.arg.fail = 1
    /\ resp.body = PaymentStatsDefault
    /\ payments # EmptyTable

\* C10: for members, equipment and payments (events has no count endpoint),
\* every search term and every filter, the count endpoint returns the number
\* of records the list endpoint returns over the pages 0, 1, 2, ... of every
\* page size.
C10_CountEqualsListed ==
    \A s \in Searches, l \in Limits :
        /\ \A g \in {None, Female} :
               get_members_count(members, s, g, 0).body
                   = Cardinality({ p \in (0 .. Cardinality(DOMAIN members)) \X (1 .. l) :
                         p[2] <= Len(get_members(members, s, g, l, p[1] * l, 0).body) })
        /\ \A g \in {None, InUse} :
               get_equipment_count(equipment, s, g, 0).body
                   = Cardinality({ p \in (0 .. Cardinality(DOMAIN equipment)) \X (1 .. l) :
                         p[2] <= Len(get_equipment(equipment, s, g, l, p[1] * l, 0).body) })
        /\ \A g \in {None, Tithe} :
               get_payments_count(payments, s, g, 0).body
                   = Cardinality({ p \in (0 .. Cardinality(DOMAIN payments)) \X (1 .. l) :
                         p[2] <= Len(get_payments(payments, s, g, l, p[1] * l, 0).body) })

\* C11 as stated: in every module a list call without filters answers with
\* the records at the positions offset .. offset + limit - 1 of the whole
\* ordered collection (at most limit of them), and with the empty sequence
\* when offset is at or beyond the number of records.
C11_ListIsPageOfCollection ==
    \A l \in 1 .. (MaxRows + 1), o \in 0 .. (MaxRows + 1) :
        /\ LET ord == Ordered(DOMAIN members, MembersBefore(members, DOMAIN members))
               k == IF o >= Len(ord) THEN 0 ELSE IF Len(ord) - o < l THEN Len(ord) - o ELSE l
               out == get_members(members, None, None, l, o, 0)
           IN  /\ out.status = 200 /\ Len(out.body) = k
               /\ \A n \in 1 .. k : out.body[n]["id"] = ord[o + n]
        /\ LET ord == Ordered(DOMAIN equipment, EquipmentBefore(equipment, DOMAIN equipment))
               k == IF o >= Len(ord) THEN 0 ELSE IF Len(ord) - o < l THEN Len(ord) - o ELSE l
               out == get_equipment(equipment, None, None, l, o, 0)
           IN  /\ out.status = 200 /\ Len(out.body) = k
               /\ \A n \in 1 .. k : out.body[n]["id"] = ord[o + n]
        /\ LET ord == Ordered(DOMAIN payments, PaymentsBefore(payments, DOMAIN payments))
               k == IF o >= Len(ord) THEN 0 ELSE IF Len(ord) - o < l THEN Len(ord) - o ELSE l
               out == get_payments(payments, None, None, l, o, 0)
           IN  /\ out.status = 200 /\ Len(out.body) = k
               /\ \A n \in 1 .. k : out.body[n]["id"] = ord[o + n]
        /\ LET ord == Ordered(DOMAIN events, EventsBefore(events, DOMAIN events))
               k == IF o >= Len(ord) THEN 0 ELSE IF Len(ord) - o < l THEN Len(ord) - o ELSE l
               out == get_events(events, event_rsvps, None, None, None, None, None, l, o, 0)
           IN  /\ out.status = 200 /\ Len(out.body) = k
               /\ \A n \in 1 .. k : out.body[n]["id"] = ord[o + n]

\* C11, amended: the same, where the ordered collection of the events module
\* is that of the published events.
C11_ListIsPageOfListedCollection ==
    \A l \in 1 .. (MaxRows + 1), o \in 0 .. (MaxRows + 1) :
        /\ LET ord == Ordered(DOMAIN members, MembersBefore(members, DOMAIN members))
               k == IF o >= Len(ord) THEN 0 ELSE IF Len(ord) - o < l THEN Len(ord) - o ELSE l
               out == get_members(members, None, None, l, o, 0)
           IN  /\ out.status = 200 /\ Len(out.body) = k /\ k <= l
               /\ \A n \in 1 .. k : out.body[n]["id"] = ord[o + n]
        /\ LET ord == Ordered(DOMAIN equipment, EquipmentBefore(equipment, DOMAIN equipment))
               k == IF o >= Len(ord) THEN 0 ELSE IF Len(ord) - o < l THEN Len(ord) - o ELSE l
               out == get_equipment(equipment, None, None, l, o, 0)
           IN  /\ out.status = 200 /\ Len(out.body) = k /\ k <= l
               /\ \A n \in 1 .. k : out.body[n]["id"] = ord[o + n]
        /\ LET ord == Ordered(DOMAIN payments, PaymentsBefore(payments, DOMAIN payments))
               k == IF o >= Len(ord) THEN 0 ELSE IF Len(ord) - o < l THEN Len(ord) - o ELSE l
               out == get_payments(payments, None, None, l, o, 0)
           IN  /\ out.status = 200 /\ Len(out.body) = k /\ k <= l
               /\ \A n \in 1 .. k : out.body[n]["id"] = ord[o + n]
        /\ LET listed == { i \in DOMAIN events : events[i]["is_published"] = True }
               ord == Ordered(listed, EventsBefore(events, listed))
               k == IF o >= Len(ord) THEN 0 ELSE IF Len(ord) - o < l THEN Len(ord) - o ELSE l
               out == get_events(events, event_rsvps, None, None, None, None, None, l, o, 0)
           IN  /\ out.status = 200 /\ Len(out.body) = k /\ k <= l
               /\ (o >= Cardinality(DOMAIN events) => out.body = <<>>)
               /\ \A n \in 1 .. k : out.body[n]["id"] = ord[o + n]

\* get_events has answered a page of size 2 with the one published event,
\* while an unpublished event created later is stored too
C11_Witness ==
    /\ resp.op = "get_events" /\ resp.status = 200
    /\ resp.arg.search = None /\ resp.arg.limit = 2 /\ resp.arg.offset = 0
    /\ Len(resp.body) = 1 /\ resp.body[1]["id"] = 1
    /\ 2 \in DOMAIN events /\ events[2]["is_published"] = False

\* C12: every read of a stored event counts exactly one view on that event
\* and on no other: a step changes the view counter of an event by 1 when it
\* is the counting call of a get_event on that event and by 0 otherwise, so
\* that N reads, one after the other or interleaved, leave the counter N
\* higher; and the record a read answers with has a counter above the one
\* the event had when the read arrived, that read's view included.
C12_EveryReadCountsOneView ==
    [][/\ \A e \in (DOMAIN events) \cap (DOMAIN events') :
            events'[e]["views"] - events[e]["views"] =
                IF \E req \in BagToSet(running) :
                       /\ req.op = "get_event" /\ req.pc = "update" /\ req.id = e
                       /\ running' = (running (-) SetToBag({req}))
                                         (+) SetToBag({[req EXCEPT !.pc = "select"]})
                THEN 1 ELSE 0
       /\ \A req \in BagToSet(running) :
            (/\ req.op = "get_event" /\ req.pc = "count"
             /\ running' = running (-) SetToBag({req}))
            => /\ resp'.status = 200
               /\ resp'.body["id"] = req.id
               /\ resp'.body["views"] >= req.base + 1]_vars

\* two reads of one event interleave: a read that arrived at 0 views answers 2
C12_Witness ==
    /\ resp.op = "get_event" /\ resp.status = 200
    /\ resp.arg.base = 0 /\ resp.body["views"] = 2
    /\ 1 \in DOMAIN events /\ events[1]["views"] = 2

\* C13: an update handler whose target row a concurrent request deleted
\* between its existence check and its update answers 404: whenever a request
\* of update_member or update_event that passed the check makes its update
\* call on a row no longer stored, its response is a 404.
C13_LateUpdateIsNotFound ==
    [][\A req \in BagToSet(running) :
          (/\ req.pc = "update"
           /\ \/ req.op = "update_member" /\ req.id \notin DOMAIN members
              \/ req.op = "update_event" /\ req.id \notin DOMAIN events
           /\ running' = running (-) SetToBag({req}))
          => resp'.op = req.op /\ resp'.status = 404]_vars

\* C14, as claimed: the event an RSVP row references is stored at the moment
\* the row is inserted, also when create_rsvp and delete_event interleave at
\* the granularity of backend calls: every step that adds a row to event_rsvps
\* is taken in a state where the event of that row is stored.
C14_EventPresentAtInsert ==
    [][\A r \in (DOMAIN event_rsvps') \ (DOMAIN event_rsvps) :
          event_rsvps'[r]["event_id"] \in DOMAIN events]_vars

\* C14, amended: the event an RSVP row references was stored when create_rsvp
\* looked it up, before the insert: every step that adds a row to event_rsvps
\* is the insert of a create_rsvp request that holds the event row its select
\* found, and that event has an identifier the store issued.
C14_EventPresentAtCheck ==
    [][\A r \in (DOMAIN event_rsvps') \ (DOMAIN event_rsvps) :
          \E req \in BagToSet(running) :
              /\ req.op = "create_rsvp" /\ req.pc = "insert"
              /\ running' = running (-) SetToBag({req})
              /\ Len(req.held) = 1
              /\ req.held[1]["id"] = event_rsvps'[r]["event_id"]
              /\ event_rsvps'[r]["event_id"] \in 1 .. next_id["events"]]_vars

\* an RSVP is inserted after its event was deleted
C14_Witness ==
    /\ resp.op = "create_rsvp" /\ resp.status = 201
    /\ resp.body["id"] \in DOMAIN event_rsvps
    /\ resp.body["event_id"] \notin DOMAIN events

\* C15: after any sequence of create and update operations no stored record
\* of any module holds the empty string in an optional field (email and
\* gender of a member, serial_number and status of an equipment, content of
\* an event, email of an RSVP, phone of a payment).
C15_NoEmptyOptionalField ==
    /\ \A i \in DOMAIN members :
          members[i]["email"] # Empty /\ members[i]["gender"] # Empty
    /\ \A i \in DOMAIN equipment :
          equipment[i]["serial_number"] # Empty /\ equipment[i]["status"] # Empty
    /\ \A i \in DOMAIN events : events[i]["content"] # Empty
    /\ \A i \in DOMAIN event_rsvps : event_rsvps[i]["email"] # Empty
    /\ \A i \in DOMAIN payments : payments[i]["phone"] # Empty

C17_LatestIsGreatest ==
    (resp.op = "get_latest_receipt_number" /\ resp.arg.fail = 0) =>
        /\ resp.status = 200
        /\ IF DOMAIN payments = {} THEN resp.body = NoReceipt
           ELSE /\ \E i \in DOMAIN payments : payments[i]["receipt_number"] = resp.body
                /\ \A j \in DOMAIN payments :
                      ~TextLess(resp.body, payments[j]["receipt_number"])

\* the greatest number is not the one of the payment created last
C17_Witness ==
    /\ resp.op = "get_latest_receipt_number" /\ resp.status = 200
    /\ resp.body = ReceiptNumber(2)
    /\ DOMAIN payments = {1, 2}
    /\ payments[1]["receipt_number"] = ReceiptNumber(2)
    /\ payments[2]["receipt_number"] = Placeholder

\* C18, as claimed: with the backend answering, get_member_stats reports
\* female >= 1 while a member of gender "female" is stored, and its total,
\* male, female and other are the counts of the stored members, whatever
\* creates, updates and deletes came before.
C18_StatsAreStoredCounts ==
    (resp.op = "get_member_stats" /\ resp.arg.fail = 0) =>
        LET of(g) == Cardinality({ i \in DOMAIN members : members[i]["gender"] = g })
        IN  /\ resp.body.total = Cardinality(DOMAIN members)
            /\ resp.body.male = of(Male)
            /\ resp.body.female = of(Female)
            /\ resp.body.other = of(<<"o", "t", "h", "e", "r">>)
            /\ of(Female) >= 1 => resp.body.female >= 1

\* C18, amended: the same while at most 1000 members are stored; with more,
\* the handler counts 1000 of them, so that total is 1000 and male, female
\* and other are at most the stored counts.
C18_StatsAreStoredCountsUpToLimit ==
    (resp.op = "get_member_stats" /\ resp.arg.fail = 0) =>
        LET of(g) == Cardinality({ i \in DOMAIN members : members[i]["gender"] = g })
        IN  IF Cardinality(DOMAIN members) <= StatsLimit
            THEN /\ resp.body.total = Cardinality(DOMAIN members)
                 /\ resp.body.male = of(Male)
                 /\ resp.body.female = of(Female)
                 /\ resp.body.other = of(<<"o", "t", "h", "e", "r">>)
                 /\ of(Female) >= 1 => resp.body.female >= 1
            ELSE /\ resp.body.total = StatsLimit
                 /\ resp.body.male <= of(Male)
                 /\ resp.body.female <= of(Female)
                 /\ resp.body.other <= of(<<"o", "t", "h", "e", "r">>)

\* the stats of exactly 1000 stored members, one of them female
C18_Witness ==
    /\ resp.op = "get_member_stats" /\ resp.arg.fail = 0
    /\ Cardinality(DOMAIN members) = StatsLimit
    /\ resp.body.total = StatsLimit
    /\ resp.body.female = 1

\* C19: every stats handler computes its aggregates over at most 1000
\* fetched records: the number of records each of the four counts as its
\* total is at most 1000, however many rows are stored.
C19_StatsOverAtMostLimit ==
    /\ resp.op \in {"get_member_stats", "get_equipment_stats", "get_payment_stats"}
       => resp.body.total <= StatsLimit
    /\ resp.op = "get_event_stats" => resp.body.total_events <= StatsLimit

\* C20, as claimed: with the storage answering, upload_image stores the file
\* and answers with its url and filename exactly when the content type is one
\* of the six allowed and the file has at most 10 MB, and otherwise answers
\* 400 and writes nothing; the filename answered ends with the extension of
\* the original file name, or with .jpg when that name has none.
C20_UploadStoresValidFiles ==
    [][(resp.op = "idle" /\ resp'.op = "upload_image" /\ resp'.arg.fail = 0) =>
          LET file == resp'.arg.file
              ext == splitext(file.filename)[2]
              suffix == IF ext = Empty THEN Jpg ELSE ext
          IN  IF file.content_type \in AllowedTypes /\ file.size <= MaxImageBytes
              THEN /\ resp'.status = 200
                   /\ resp'.body.filename \notin DOMAIN images
                   /\ DOMAIN images' = (DOMAIN images) \cup {resp'.body.filename}
                   /\ \A n \in DOMAIN images : images'[n] = images[n]
                   /\ images'[resp'.body.filename].size = file.size
                   /\ resp'.body.url = PublicUrl(resp'.body.filename)
                   /\ Len(resp'.body.filename) > Len(suffix)
                   /\ SubSeq(resp'.body.filename,
                             Len(resp'.body.filename) - Len(suffix) + 1,
                             Len(resp'.body.filename)) = suffix
              ELSE resp'.status = 400 /\ images' = images]_vars

\* C20, amended: the same, the filename answered ending with the extension
\* of the original file name in lower case.
C20_UploadStoresValidFilesLowerCase ==
    [][(resp.op = "idle" /\ resp'.op = "upload_image" /\ resp'.arg.fail = 0) =>
          LET file == resp'.arg.file
              ext == LowerText(splitext(file.filename)[2])
              suffix == IF ext = Empty THEN Jpg ELSE ext
          IN  IF file.content_type \in AllowedTypes /\ file.size <= MaxImageBytes
              THEN /\ resp'.status = 200
                   /\ resp'.body.filename \notin DOMAIN images
                   /\ DOMAIN images' = (DOMAIN images) \cup {resp'.body.filename}
                   /\ \A n \in DOMAIN images : images'[n] = images[n]
                   /\ images'[resp'.body.filename].size = file.size
                   /\ resp'.body.url = PublicUrl(resp'.body.filename)
                   /\ Len(resp'.body.filename) > Len(suffix)
                   /\ SubSeq(resp'.body.filename,
                             Len(resp'.body.filename) - Len(suffix) + 1,
                             Len(resp'.body.filename)) = suffix
              ELSE resp'.status = 400 /\ images' = images]_vars

\* a file of exactly 10 MB named a.B is stored under a name ending in .b,
\* next to an image uploaded before
C20_Witness ==
    /\ resp.op = "upload_image" /\ resp.status = 200
    /\ resp.arg.file.filename = <<"a", ".", "B">>
    /\ resp.arg.file.size = MaxImageBytes
    /\ resp.body.filename = <<"2", ".", "b">>
    /\ resp.body.filename \in DOMAIN images
    /\ Cardinality(DOMAIN images) = 2

\* C21, as claimed: a partial failure of delete_event, served alone, leaves
\* RSVPs whose event is no longer stored: when the one delete is done and the
\* other fails for a stored event that has RSVPs, the store afterwards holds an
\* RSVP whose event_id names no stored event.
C21_PartialFailureLeavesOrphans ==
    [][(/\ resp'.op = "delete_event" /\ resp'.arg.fail = 2
        /\ resp'.arg.id \in DOMAIN events
        /\ \E r \in DOMAIN event_rsvps : event_rsvps[r]["event_id"] = resp'.arg.id)
       => \E r \in DOMAIN event_rsvps' :
             event_rsvps'[r]["event_id"] \notin DOMAIN events']_vars

\* C21, amended: a failing delete_event, served alone, never leaves an RSVP
\* whose event is not stored and never removes the event.  When its first
\* delete fails nothing changes; when its second delete fails the event stays
\* stored and exactly its RSVPs are gone.
C21_PartialFailureKeepsTheEvent ==
    [][(resp'.op = "delete_event" /\ resp'.status = 500)
       => /\ \A r \in DOMAIN event_rsvps' :
                event_rsvps'[r]["event_id"] \in DOMAIN events'
          /\ events' = events
          /\ resp'.arg.fail = 1 => event_rsvps' = event_rsvps
          /\ resp'.arg.fail = 2
             => /\ DOMAIN event_rsvps' =
                     { r \in DOMAIN event_rsvps :
                         event_rsvps[r]["event_id"] # resp'.arg.id }
                /\ \A r \in DOMAIN event_rsvps' : event_rsvps'[r] = event_rsvps[r]]_vars

\* the second delete of delete_event has failed for the only event, which is
\* stored, and the RSVP that was created is gone
C21_Witness ==
    /\ resp.op = "delete_event" /\ resp.status = 500 /\ resp.arg.fail = 2
    /\ resp.arg.id = 1 /\ DOMAIN events = {1}
    /\ next_id["event_rsvps"] = 1 /\ event_rsvps = EmptyTable

\* C22: a get-by-id, update or delete request that answers 404 leaves every
\* table as it was.  With the handlers split at their backend calls: the step
\* that answers 404 changes no table, and neither does the earlier step of a
\* delete_event whose event is not stored (identifiers are never issued twice,
\* so that request answers 404).
C22_NotFoundChangesNothing ==
    [][/\ (resp' # resp /\ resp'.status = 404 /\ resp'.op = "delete_event")
          => /\ events' = events /\ event_rsvps' = event_rsvps
             /\ members' = members /\ equipment' = equipment /\ payments' = payments
       /\ \A req \in BagToSet(running) :
             (/\ req.op = "delete_event" /\ req.pc = "delete_rsvps"
              /\ req.id \notin DOMAIN events
              /\ running' = (running (-) SetToBag({req}))
                                (+) SetToBag({[req EXCEPT !.pc = "delete"]}))
             => /\ events' = events /\ event_rsvps' = event_rsvps
                /\ members' = members /\ equipment' = equipment
                /\ payments' = payments]_vars

\* C23: when requests are served one after the other, the rsvp_count of every
\* event a response of get_events, get_event, create_event or update_event
\* carries is the number of RSVP rows stored for that event when the response
\* is given.
C23_RsvpCountIsStoredCount ==
    /\ (/\ resp.op \in {"get_event", "create_event", "update_event"}
        /\ resp.status \in {200, 201})
       => resp.body["rsvp_count"] =
              Cardinality({ r \in DOMAIN event_rsvps :
                              event_rsvps[r]["event_id"] = resp.body["id"] })
    /\ (resp.op = "get_events" /\ resp.status = 200)
       => \A n \in 1 .. Len(resp.body) :
              resp.body[n]["rsvp_count"] =
                  Cardinality({ r \in DOMAIN event_rsvps :
                                  event_rsvps[r]["event_id"] = resp.body[n]["id"] })

\* C24: no operation changes the id of a stored record, and none changes the
\* receipt_number of a stored payment: a payment enters the table under an
\* identifier never issued before, with the id and the receipt_number its
\* create_payment answers, and keeps both for as long as it is stored.
C24_IdAndReceiptNumberKept ==
    [][/\ \A i \in (DOMAIN members) \cap (DOMAIN members') :
              members'[i]["id"] = members[i]["id"]
       /\ \A i \in (DOMAIN equipment) \cap (DOMAIN equipment') :
              equipment'[i]["id"] = equipment[i]["id"]
       /\ \A i \in (DOMAIN events) \cap (DOMAIN events') :
              events'[i]["id"] = events[i]["id"]
       /\ \A i \in (DOMAIN payments) \cap (DOMAIN payments') :
              /\ payments'[i]["id"] = payments[i]["id"]
              /\ payments'[i]["receipt_number"] = payments[i]["receipt_number"]
       /\ \A i \in (DOMAIN payments') \ (DOMAIN payments) :
              /\ i > next_id["payments"]
              /\ resp'.op = "create_payment"
              /\ payments'[i]["id"] = i /\ resp'.body["id"] = i
              /\ payments'[i]["receipt_number"] = resp'.body["receipt_number"]]_vars

\* update_payment has changed the reason of the second payment, which carries
\* the second receipt number
C24_Witness ==
    /\ resp.op = "update_payment" /\ resp.status = 200 /\ resp.arg.id = 2
    /\ "reason" \in DOMAIN resp.arg.data /\ resp.arg.data["reason"] = Offering
    /\ 2 \in DOMAIN payments
    /\ payments[2]["reason"] = Offering
    /\ payments[2]["receipt_number"] = ReceiptNumber(2)

\* C25 (as stated): no successful get_events response holds an event whose
\* is_published is false, and of the handlers that answer an event only
\* get_event answers one whose is_published is false.
C25_UnpublishedOnlyThroughGetEvent ==
    /\ (resp.op = "get_events" /\ resp.status = 200)
       => \A n \in DOMAIN resp.body : resp.body[n]["is_published"] = True
    /\ (resp.op \in {"create_event", "update_event"} /\ resp.status \in {200, 201})
       => resp.body["is_published"] = True

\* C25 (amended): for every combination of search, type, category, featured
\* and upcoming, get_events answers only events whose is_published is true;
\* get_event answers every stored event by its id, published or not; an
\* unpublished event in a response of create_event or update_event is the
\* stored event of that id.
C25_GetEventsOnlyPublished ==
    /\ (resp.op = "get_events" /\ resp.status = 200)
       => \A n \in DOMAIN resp.body : resp.body[n]["is_published"] = True
    /\ \A i \in DOMAIN events :
          LET out == get_event(events, event_rsvps, i, 0)
          IN  /\ out.status = 200
              /\ out.body["id"] = i
              /\ out.body["is_published"] = events[i]["is_published"]
    /\ (/\ resp.op \in {"create_event", "update_event"}
        /\ resp.status \in {200, 201}
        /\ resp.body["is_published"] = False)
       => /\ resp.body["id"] \in DOMAIN events
          /\ events[resp.body["id"]]["is_published"] = False

\* get_events was asked for the featured upcoming events while an unpublished
\* event is stored that is featured and starts today, and answered no event
C25_Witness ==
    /\ resp.op = "get_events" /\ resp.status = 200
    /\ resp.arg.search = None /\ resp.arg.type = None /\ resp.arg.category = None
    /\ resp.arg.featured = True /\ resp.arg.upcoming = True
    /\ resp.arg.offset = 0
    /\ \E i \in DOMAIN events :
          /\ events[i]["is_published"] = False
          /\ events[i]["is_featured"] = True
          /\ events[i]["event_start_date"] = isoformat(Nov3)
          /\ events[i]["type"] = EventType
    /\ resp.body = <<>>

\* C26: when get_payment_stats answers with its backend call answering, total
\* is the number of the stored payments, the by_reason values and the
\* by_method values each add up to total_amount, which is the sum of the
\* amounts of the stored payments, and today_total is the sum of the amounts
\* of exactly the payments whose payment_date is the current date.
C26_StatsSumsAgree ==
    (resp.op = "get_payment_stats" /\ resp.arg.fail = 0) =>
        LET RECURSIVE Total(_, _)
            Total(f, S) == IF S = {} THEN 0
                           ELSE LET x == CHOOSE y \in S : TRUE
                                IN  f[x] + Total(f, S \ {x})
            amount == [i \in DOMAIN payments |-> payments[i]["amount"]]
            body == resp.body
        IN  /\ resp.status = 200
            /\ body.total = Cardinality(DOMAIN payments)
            /\ body.total_amount = Total(amount, DOMAIN payments)
            /\ Total(body.by_reason, DOMAIN body.by_reason) = body.total_amount
            /\ Total(body.by_method, DOMAIN body.by_method) = body.total_amount
            /\ DOMAIN body.by_reason = { payments[i]["reason"] : i \in DOMAIN payments }
            /\ DOMAIN body.by_method
                   = { payments[i]["payment_method"] : i \in DOMAIN payments }
            /\ body.today_total
                   = Total(amount, { i \in DOMAIN payments :
                                      payments[i]["payment_date"] = isoformat(Nov3) })

\* the stats of two payments: 1 dollar paid today in cash and 2 dollars paid
\* the day before by another method
C26_Witness ==
    /\ resp.op = "get_payment_stats" /\ resp.arg.fail = 0
    /\ DOMAIN payments = {1, 2}
    /\ \E i \in {1, 2} :
          /\ payments[i]["amount"] = 1 /\ payments[i]["payment_method"] = Cash
          /\ payments[i]["payment_date"] = isoformat(Nov3)
          /\ payments[3 - i]["amount"] = 2 /\ payments[3 - i]["payment_method"] = Ab
          /\ payments[3 - i]["payment_date"] # isoformat(Nov3)
    /\ resp.body.total = 2 /\ resp.body.total_amount = 3
    /\ resp.body.today_total = 1
    /\ resp.body.by_method[Cash] = 1 /\ resp.body.by_method[Ab] = 2

====
